---- MODULE Spec2Model ----
(***************************************************************************)
(* State-machine model of the BACnet Arduino library:                      *)
(*   - the object registry of BACnetDevice (src/src/BACnetDevice.cpp),     *)
(*   - the Analog Value object (src/src/BACnetAnalogValue.cpp),            *)
(*   - the Binary Value WriteProperty and ReadProperty handlers of the C   *)
(*     implementation (src/extras/old_c_implementation/bv.c).              *)
(*   - the transceiver of the MS/TP datalink (src/rs485.cpp) and the       *)
(*     transceiver class (src/src/hardware/BACnetRS485.cpp).               *)
(* Each subsystem has its own specification (SpecDevice, SpecAV, SpecBV,   *)
(* SpecBVRead, SpecRS485, SpecHAL, SpecTransceiver); the variables of the  *)
(* other subsystems keep their constructed values.                         *)
(***************************************************************************)
EXTENDS Integers, Sequences, FiniteSets, TLC

VARIABLES
    \* BACnetDevice
    _objects,          \* BACnetObject* _objects[MAX_BACNET_OBJECTS], indexed 0..MAX-1
    _object_count,     \* uint8_t _object_count
    dev_call,          \* the last registry call: operation, argument, the count
                       \* before it, and whether the call before it was a
                       \* removeObject that took an object out of a full table
    dev_ret,           \* the value the last addObject returned
    \* BACnetAnalogValue
    av_present_value,  \* float _present_value  (in hundredths)
    av_previous_value, \* float _previous_value (in hundredths)
    av_min_value,      \* float _min_value      (in hundredths)
    av_max_value,      \* float _max_value      (in hundredths)
    av_pin,            \* int8_t _pin
    av_cov_enabled,    \* bool _cov_enabled
    av_cov_increment,  \* float _cov_increment  (in hundredths)
    av_last_cov_time,  \* unsigned long _last_cov_time
    millis,            \* the value millis() returns
    av_call,           \* the last Analog Value call: operation and argument
    \* bv.c
    pin_level,         \* logic level of each GPIO pin of Object_List
    wp_data,           \* the BACNET_WRITE_PROPERTY_DATA of the last request
    wp_status,         \* the value the last Binary_Value_Write_Property returned
    pin_writes,        \* the PIN_WRITE calls the last handler call made
    rp_data,           \* the BACNET_READ_PROPERTY_DATA of the last read request
    rp_len,            \* the value the last Binary_Value_Read_Property returned
    rp_apdu,           \* what the last read left in rpdata->application_data
    rp_level,          \* the pin levels as they were during the last read
    \* rs485.cpp
    RS485_Baud,        \* static uint32_t RS485_Baud
    Silence_Timer,     \* static struct mstimer Silence_Timer
    mstimer_now,       \* the value mstimer_now() returns (millis())
    rs_pin_mode,       \* pinMode of RS485_Enable_Pin
    rs_pin_level,      \* level of RS485_Enable_Pin: TRUE is HIGH (transmit)
    rs_port_baud,      \* baud rate RS485_PORT was begun with, 0 before begin()
    rs_tx_pending,     \* bytes RS485_PORT accepted and has not yet transmitted
    rs_rx_available,   \* bytes waiting in the receive buffer of RS485_PORT
    rs_pc,             \* position inside RS485_Send_Data, "idle" outside it
    rs_nbytes,         \* nbytes of the RS485_Send_Data call in progress
    rs_accepted,       \* the count RS485_PORT.write returned in the last send
    rs_log,            \* the steps the last RS485_Send_Data has taken so far
    rs_call,           \* the last call of RS485_Set_Baud_Rate or
                       \* RS485_Turnaround_Delay: its input and what it did
    \* BACnetRS485
    _serial,           \* static HardwareSerial* _serial: nullptr or a port
    _enable_pin,       \* static int8_t _enable_pin
    _auto_direction,   \* static bool _auto_direction
    _baud_rate,        \* static uint32_t _baud_rate
    hal_pin_mode,      \* pinMode of the DE/RE pin of the board
    hal_pin_level,     \* level of the DE/RE pin: TRUE is HIGH (transmit)
    hal_tx_pending,    \* bytes the port accepted and has not yet transmitted
    hal_rx_available,  \* bytes waiting in the receive buffer of the port
    hal_pc,            \* position inside BACnetRS485::write, "idle" outside it
    hal_size,          \* size of the write call in progress
    hal_result,        \* the last call that returned a value, and the value
    hal_buffer,        \* the buffer argument of the last write call
    hal_log,           \* the last call of the class and, in order, the pin
                       \* and port calls it has made so far
    \* BACnetDevice::begin and BACnetDevice::task
    _initialized,      \* begin() has run
    init_log,          \* the initialization functions begin() has called
    task_pc,           \* the statement the task() in progress is at, "idle"
                       \* between calls
    task_i,            \* the index i of the loop of task()
    task_log,          \* the calls the task() in progress has made, in order
    \* BACnetBinaryValue: one object and the digital pin it may be bound to
    bin_present_value, \* _present_value
    bin_previous_value,\* _previous_value
    bin_pin,           \* _pin
    bin_pin_mode,      \* _pin_mode
    bin_cov_enabled,   \* _cov_enabled
    bin_last_cov_time, \* _last_cov_time
    bin_level,         \* the level of the digital pin: TRUE is HIGH
    bin_hw_mode,       \* the mode pinMode last gave the digital pin
    name_mem,          \* the bytes of _device_name, _location and
                       \* _description, consecutive members of the device,
                       \* and the bytes that follow them
    name_call,         \* the last call of a name setter: its argument and
                       \* the bytes before it
    fn_call,           \* the last call of one of the functions without
                       \* state of its own: its argument and its result
    bin_call           \* the last call of a member function: its argument,
                       \* the sample it read, the values and the clock at
                       \* its start, and the digitalWrite calls it made

dev_vars == <<_objects, _object_count, dev_call, dev_ret>>
av_vars == <<av_present_value, av_previous_value, av_min_value, av_max_value,
             av_pin, av_cov_enabled, av_cov_increment, av_last_cov_time,
             millis, av_call>>
bv_vars == <<pin_level, wp_data, wp_status, pin_writes>>
rp_vars == <<rp_data, rp_len, rp_apdu, rp_level>>
rs_vars == <<RS485_Baud, Silence_Timer, mstimer_now, rs_pin_mode, rs_pin_level,
             rs_port_baud, rs_tx_pending, rs_rx_available, rs_pc, rs_nbytes,
             rs_accepted, rs_log, rs_call>>
hal_vars == <<_serial, _enable_pin, _auto_direction, _baud_rate, hal_pin_mode,
              hal_pin_level, hal_tx_pending, hal_rx_available, hal_pc,
              hal_size, hal_result, hal_buffer, hal_log>>
task_vars == <<_initialized, init_log, task_pc, task_i, task_log>>
bin_vars == <<bin_present_value, bin_previous_value, bin_pin, bin_pin_mode,
              bin_cov_enabled, bin_last_cov_time, bin_level, bin_hw_mode,
              bin_call>>
fn_vars == <<fn_call>>
name_vars == <<name_mem, name_call>>
vars == <<dev_vars, av_vars, bv_vars, rp_vars, rs_vars, hal_vars, task_vars,
          bin_vars, fn_vars, name_vars>>

\* What an action of one subsystem leaves alone
other_than_dev == <<av_vars, bv_vars, rp_vars, rs_vars, hal_vars, task_vars,
                    bin_vars, fn_vars, name_vars>>
other_than_av == <<dev_vars, bv_vars, rp_vars, rs_vars, hal_vars, task_vars,
                   bin_vars, fn_vars, name_vars>>
other_than_bv == <<dev_vars, av_vars, rp_vars, rs_vars, hal_vars, task_vars,
                   bin_vars, fn_vars, name_vars>>
other_than_rp == <<dev_vars, av_vars, bv_vars, rs_vars, hal_vars, task_vars,
                   bin_vars, fn_vars, name_vars>>
other_than_rs == <<dev_vars, av_vars, bv_vars, rp_vars, hal_vars, task_vars,
                   bin_vars, fn_vars, name_vars>>
other_than_hal == <<dev_vars, av_vars, bv_vars, rp_vars, rs_vars, task_vars,
                    bin_vars, fn_vars, name_vars>>
other_than_task == <<dev_vars, av_vars, bv_vars, rp_vars, rs_vars, hal_vars,
                     bin_vars, fn_vars, name_vars>>
other_than_bin == <<dev_vars, av_vars, bv_vars, rp_vars, rs_vars, hal_vars,
                    task_vars, fn_vars, name_vars>>
other_than_fn == <<dev_vars, av_vars, bv_vars, rp_vars, rs_vars, hal_vars,
                   task_vars, bin_vars, name_vars>>
other_than_name == <<dev_vars, av_vars, bv_vars, rp_vars, rs_vars, hal_vars,
                     task_vars, bin_vars, fn_vars>>

(***************************************************************************)
(* BACnetDevice: the object registry                                       *)
(***************************************************************************)

\* Tier capacity of the registry. The tiers define 8, 32, 64 and 128
\* (BACnetConfig.h:454-462); the model checks a scaled-down tier.
MAX_BACNET_OBJECTS == 3

\* Number of BACnetObject instances the sketch has constructed.
NumObjects == 5

nullptr == 0

\* Pointers to the constructed objects.
Objects == 1..NumObjects

\* BACnetObject::getInstance(): _instance is fixed by the constructor, which
\* accepts any number.  The constructed objects carry the instance numbers
\* 1 .. NumObjects-1, and the last object was constructed with instance 1 too.
getInstance(o) == IF o = NumObjects THEN 1 ELSE o

Slots == 0..(MAX_BACNET_OBJECTS - 1)

\* uint8_t arithmetic of _object_count
U8(n) == n % 256

\* BACnetDevice::BACnetDevice
DeviceInit ==
    /\ _objects = [i \in Slots |-> nullptr]
    /\ _object_count = 0
    /\ dev_call = [op |-> "BACnetDevice", object |-> nullptr, count_before |-> 0,
                   after_full_remove |-> FALSE]
    /\ dev_ret = FALSE

\* The record of a call: the last call was a removeObject that began with a full
\* table and took one object out of it
CallRecord(op, object) ==
    [op |-> op, object |-> object, count_before |-> _object_count,
     after_full_remove |->
        /\ dev_call.op = "removeObject"
        /\ dev_call.count_before = MAX_BACNET_OBJECTS
        /\ _object_count = MAX_BACNET_OBJECTS - 1]

\* addObject with the capacity test off by one: the last slot is never used
addObject_CapacityOffByOne(object) ==
    /\ dev_call' = CallRecord("addObject", object)
    /\ IF object = nullptr \/ _object_count + 1 >= MAX_BACNET_OBJECTS
         THEN /\ dev_ret' = FALSE
              /\ UNCHANGED <<_objects, _object_count>>
         ELSE /\ _objects' = [_objects EXCEPT ![_object_count] = object]
              /\ _object_count' = U8(_object_count + 1)
              /\ dev_ret' = TRUE

\* addObject storing with a pre-increment, "_objects[++_object_count] = object":
\* the object lands one slot past the end of the contained objects
addObject_PreIncrement(object) ==
    /\ dev_call' = CallRecord("addObject", object)
    /\ IF object = nullptr \/ _object_count >= MAX_BACNET_OBJECTS
         THEN /\ dev_ret' = FALSE
              /\ UNCHANGED <<_objects, _object_count>>
         ELSE /\ _objects' = [j \in Slots |->
                                IF j = _object_count + 1 THEN object ELSE _objects[j]]
              /\ _object_count' = U8(_object_count + 1)
              /\ dev_ret' = TRUE

\* bool BACnetDevice::addObject(BACnetObject* object)
addObject(object) ==
    /\ dev_call' = CallRecord("addObject", object)
    /\ IF object = nullptr
         THEN /\ dev_ret' = FALSE
              /\ UNCHANGED <<_objects, _object_count>>
         ELSE IF _object_count >= MAX_BACNET_OBJECTS
           THEN /\ dev_ret' = FALSE
                /\ UNCHANGED <<_objects, _object_count>>
           ELSE /\ _objects' = [_objects EXCEPT ![_object_count] = object]
                /\ _object_count' = U8(_object_count + 1)
                /\ dev_ret' = TRUE

\* The scan of removeObject: the first index i < _object_count with
\* _objects[i] == object, or _object_count when the loop ends without a match.
RECURSIVE FindObject(_, _)
FindObject(object, i) ==
    IF i >= _object_count THEN _object_count
    ELSE IF _objects[i] = object THEN i
    ELSE FindObject(object, i + 1)

\* ShiftDown without "_objects[_object_count - 1] = nullptr"
ShiftDown_NoClear(i) ==
    [j \in Slots |->
        IF j >= i /\ j < _object_count - 1 THEN _objects[j + 1] ELSE _objects[j]]

\* ShiftDown that closes the gap with the last object instead of shifting
ShiftDown_SwapLast(i) ==
    [j \in Slots |->
        IF j = _object_count - 1 THEN nullptr
        ELSE IF j = i THEN _objects[_object_count - 1]
        ELSE _objects[j]]

\* The inner loop of removeObject at index i, then the two assignments after it.
ShiftDown(i) ==
    [j \in Slots |->
        IF j = _object_count - 1 THEN nullptr
        ELSE IF j >= i /\ j < _object_count - 1 THEN _objects[j + 1]
        ELSE _objects[j]]

\* void BACnetDevice::removeObject(BACnetObject* object)
removeObject(object) ==
    /\ dev_call' = CallRecord("removeObject", object)
    /\ UNCHANGED dev_ret
    /\ IF object = nullptr
         THEN UNCHANGED <<_objects, _object_count>>
         ELSE LET i == FindObject(object, 0) IN
              IF i < _object_count
                THEN /\ _objects' = ShiftDown(i)
                     /\ _object_count' = U8(_object_count - 1)
                ELSE UNCHANGED <<_objects, _object_count>>

DevAdd == \E o \in Objects \cup {nullptr} : addObject(o)
DevRemove == \E o \in Objects \cup {nullptr} : removeObject(o)

(***************************************************************************)
(* BACnetDevice::begin and BACnetDevice::task.  The sketch is one thread:  *)
(* no other member function starts while task() runs.                      *)
(***************************************************************************)

\* The constructor leaves the device uninitialized
TaskInit ==
    /\ _initialized = FALSE
    /\ init_log = <<>>
    /\ task_pc = "idle"
    /\ task_i = 0
    /\ task_log = <<>>

\* An entry of task_log: a function called and its argument
TaskCall(call, arg) == [call |-> call, arg |-> arg]

\* void BACnetDevice::begin(): returns at once on an initialized device,
\* otherwise calls the three initialization functions and sets _initialized
DevBegin ==
    /\ task_pc = "idle"
    /\ IF _initialized
         THEN UNCHANGED <<_initialized, init_log>>
         ELSE /\ init_log' = init_log \o <<"initializeStack",
                                            "initializeDatalink",
                                            "initializeDevice">>
              /\ _initialized' = TRUE
    /\ UNCHANGED <<task_pc, task_i, task_log>>

\* task() without its test of _initialized
task_enter_NoInitTest ==
    /\ task_pc = "idle"
    /\ task_pc' = "receive"
    /\ task_i' = 0
    /\ task_log' = <<>>
    /\ UNCHANGED <<_initialized, init_log>>

\* void BACnetDevice::task(), entry: returns at once on a device that has
\* not begun
task_enter ==
    /\ task_pc = "idle"
    /\ task_pc' = IF _initialized THEN "receive" ELSE "return"
    /\ task_i' = 0
    /\ task_log' = <<>>
    /\ UNCHANGED <<_initialized, init_log>>

\* datalink_receive(NULL)
task_receive ==
    /\ task_pc = "receive"
    /\ task_log' = Append(task_log, TaskCall("datalink_receive", 0))
    /\ task_pc' = "maintenance"
    /\ UNCHANGED <<_initialized, init_log, task_i>>

\* datalink_maintenance_timer(1)
task_maintenance ==
    /\ task_pc = "maintenance"
    /\ task_log' = Append(task_log, TaskCall("datalink_maintenance_timer", 1))
    /\ task_pc' = "tsm"
    /\ UNCHANGED <<_initialized, init_log, task_i>>

\* tsm_timer_milliseconds(1)
task_tsm ==
    /\ task_pc = "tsm"
    /\ task_log' = Append(task_log, TaskCall("tsm_timer_milliseconds", 1))
    /\ task_pc' = "update"
    /\ UNCHANGED <<_initialized, init_log, task_i>>

\* One round of the loop: for (uint8_t i = 0; i < _object_count; i++)
\*     if (_objects[i] != nullptr) _objects[i]->update();
task_update ==
    /\ task_pc = "update"
    /\ IF task_i < _object_count
         THEN /\ task_log' = IF _objects[task_i] # nullptr
                               THEN Append(task_log,
                                           TaskCall("update", _objects[task_i]))
                               ELSE task_log
              /\ task_i' = U8(task_i + 1)
              /\ UNCHANGED task_pc
         ELSE /\ task_pc' = "return"
              /\ UNCHANGED <<task_i, task_log>>
    /\ UNCHANGED <<_initialized, init_log>>

\* task() returns to the sketch: i and the record of its calls end with it
task_return ==
    /\ task_pc = "return"
    /\ task_pc' = "idle"
    /\ task_i' = 0
    /\ task_log' = <<>>
    /\ UNCHANGED <<_initialized, init_log>>

(***************************************************************************)
(* BACnetAnalogValue.  A float is modelled by its value in hundredths, the *)
(* resolution readPin() itself computes with.                              *)
(***************************************************************************)

\* readPin() scales min and max by 100 and divides the mapped sample by 100.0
SCALE == 100

\* Upper end of the ADC range readPin() maps from
ADC_MAX == 1023

\* Arguments of setValue, setMinValue and setMaxValue: -50.0 .. 150.0
FloatArgs == {-50 * SCALE, 0, 50 * SCALE, 100 * SCALE, 150 * SCALE}

\* Samples analogRead() may return
RawSamples == {0, 512, ADC_MAX}

\* Arguments of setPin: no pin, or analog pin A0
PinArgs == {-1, 14}

\* BACnetAnalogValue::BACnetAnalogValue
AVInit ==
    /\ av_present_value = 0
    /\ av_previous_value = 0
    /\ av_min_value = 0
    /\ av_max_value = 100 * SCALE
    /\ av_pin = -1
    /\ av_cov_enabled = FALSE
    /\ av_cov_increment = 1 * SCALE
    /\ av_last_cov_time = 0
    /\ millis = 0
    /\ av_call = [op |-> "BACnetAnalogValue", arg |-> 0]

\* Division of C: the quotient is truncated toward zero (b > 0)
CDiv(a, b) == IF a >= 0 THEN a \div b ELSE -((-a) \div b)

\* long map(long x, long in_min, long in_max, long out_min, long out_max)
map(x, in_min, in_max, out_min, out_max) ==
    CDiv((x - in_min) * (out_max - out_min), in_max - in_min) + out_min

\* abs() as setValue uses it
abs(x) == IF x > 0 THEN x ELSE -x

\* Constrain without the second if statement: no upper limit
Constrain_NoUpper(value, mn, mx) ==
    IF value < mn THEN mn ELSE value

\* "Constrain to min/max": the two if statements that open setValue
Constrain(value, mn, mx) ==
    LET v1 == IF value < mn THEN mn ELSE value
    IN  IF v1 > mx THEN mx ELSE v1

\* The body of setValue(value), run with _min_value = mn and _max_value = mx
SetValueBody(value, mn, mx) ==
    LET new == Constrain(value, mn, mx) IN
    /\ av_previous_value' = av_present_value
    /\ av_present_value' = new
    /\ av_last_cov_time' =
          IF av_cov_enabled /\ abs(new - av_present_value) >= av_cov_increment
            THEN millis
            ELSE av_last_cov_time

\* void BACnetAnalogValue::setValue(float value)
setValue(value) ==
    /\ av_call' = [op |-> "setValue", arg |-> value]
    /\ SetValueBody(value, av_min_value, av_max_value)
    /\ UNCHANGED <<av_min_value, av_max_value, av_pin, av_cov_enabled,
                   av_cov_increment, millis>>

\* void BACnetAnalogValue::setMinValue(float min)
setMinValue(min) ==
    /\ av_call' = [op |-> "setMinValue", arg |-> min]
    /\ av_min_value' = min
    /\ IF av_present_value < min
         THEN SetValueBody(min, min, av_max_value)
         ELSE UNCHANGED <<av_present_value, av_previous_value, av_last_cov_time>>
    /\ UNCHANGED <<av_max_value, av_pin, av_cov_enabled, av_cov_increment, millis>>

\* void BACnetAnalogValue::setMaxValue(float max)
setMaxValue(max) ==
    /\ av_call' = [op |-> "setMaxValue", arg |-> max]
    /\ av_max_value' = max
    /\ IF av_present_value > max
         THEN SetValueBody(max, av_min_value, max)
         ELSE UNCHANGED <<av_present_value, av_previous_value, av_last_cov_time>>
    /\ UNCHANGED <<av_min_value, av_pin, av_cov_enabled, av_cov_increment, millis>>

\* void BACnetAnalogValue::setPin(int8_t pin)
setPin(pin) ==
    /\ av_call' = [op |-> "setPin", arg |-> pin]
    /\ av_pin' = pin
    /\ UNCHANGED <<av_present_value, av_previous_value, av_min_value,
                   av_max_value, av_cov_enabled, av_cov_increment,
                   av_last_cov_time, millis>>

\* The body of readPin() when analogRead(_pin) returns raw
ReadPinBody(raw) ==
    IF av_pin >= 0
      THEN SetValueBody(map(raw, 0, ADC_MAX, av_min_value, av_max_value),
                        av_min_value, av_max_value)
      ELSE UNCHANGED <<av_present_value, av_previous_value, av_last_cov_time>>

\* void BACnetAnalogValue::readPin()
readPin(raw) ==
    /\ av_call' = [op |-> "readPin", arg |-> raw]
    /\ ReadPinBody(raw)
    /\ UNCHANGED <<av_min_value, av_max_value, av_pin, av_cov_enabled,
                   av_cov_increment, millis>>

\* void BACnetAnalogValue::update()
update(raw) ==
    /\ av_call' = [op |-> "update", arg |-> raw]
    /\ IF av_pin >= 0
         THEN ReadPinBody(raw)
         ELSE UNCHANGED <<av_present_value, av_previous_value, av_last_cov_time>>
    /\ UNCHANGED <<av_min_value, av_max_value, av_pin, av_cov_enabled,
                   av_cov_increment, millis>>

\* Last value of the millisecond clock
MaxMillis == 2

\* Increments enableCOV is called with: 0.0, 50.0 and 75.0
CovIncrementArgs == {0, 50 * SCALE, 75 * SCALE}

\* void BACnetAnalogValue::enableCOV(float increment)
enableCOV(increment) ==
    /\ av_call' = [op |-> "enableCOV", arg |-> increment]
    /\ av_cov_enabled' = TRUE
    /\ av_cov_increment' = increment
    /\ UNCHANGED <<av_present_value, av_previous_value, av_min_value,
                   av_max_value, av_pin, av_last_cov_time, millis>>

\* void BACnetAnalogValue::disableCOV()
disableCOV ==
    /\ av_call' = [op |-> "disableCOV", arg |-> 0]
    /\ av_cov_enabled' = FALSE
    /\ UNCHANGED <<av_present_value, av_previous_value, av_min_value,
                   av_max_value, av_pin, av_cov_increment, av_last_cov_time,
                   millis>>

\* millis() advances by one millisecond
ClockTick ==
    /\ millis < MaxMillis
    /\ millis' = millis + 1
    /\ UNCHANGED <<av_present_value, av_previous_value, av_min_value,
                   av_max_value, av_pin, av_cov_enabled, av_cov_increment,
                   av_last_cov_time, av_call>>

AVSetValue == \E v \in FloatArgs : setValue(v)
AVEnableCOV == \E increment \in CovIncrementArgs : enableCOV(increment)
AVSetMinValue == \E v \in FloatArgs : setMinValue(v)
AVSetMaxValue == \E v \in FloatArgs : setMaxValue(v)
AVSetPin == \E p \in PinArgs : setPin(p)
AVReadPin == \E raw \in RawSamples : readPin(raw)
AVUpdate == \E raw \in RawSamples : update(raw)

(***************************************************************************)
(* bv.c: the Binary Value objects of the C implementation                  *)
(***************************************************************************)

\* static struct object_data Object_List[]  (pins from pin_config.h)
Object_List == <<
    [object_id |-> 0,  object_name |-> "D3",  pin |-> 3,  is_output |-> FALSE],
    [object_id |-> 1,  object_name |-> "D4",  pin |-> 4,  is_output |-> FALSE],
    [object_id |-> 2,  object_name |-> "D5",  pin |-> 5,  is_output |-> FALSE],
    [object_id |-> 3,  object_name |-> "D6",  pin |-> 6,  is_output |-> FALSE],
    [object_id |-> 4,  object_name |-> "D7",  pin |-> 7,  is_output |-> FALSE],
    [object_id |-> 5,  object_name |-> "D8",  pin |-> 8,  is_output |-> TRUE],
    [object_id |-> 6,  object_name |-> "D9",  pin |-> 9,  is_output |-> TRUE],
    [object_id |-> 7,  object_name |-> "D10", pin |-> 10, is_output |-> TRUE],
    [object_id |-> 8,  object_name |-> "D11", pin |-> 11, is_output |-> TRUE],
    [object_id |-> 9,  object_name |-> "D12", pin |-> 12, is_output |-> TRUE],
    [object_id |-> 99, object_name |-> "LED", pin |-> 13, is_output |-> TRUE] >>

\* static const unsigned Objects_Max
Objects_Max == Len(Object_List)

Pins == {Object_List[k].pin : k \in 1..Objects_Max}

\* BACNET_BINARY_PV
BINARY_INACTIVE == 0
BINARY_ACTIVE == 1

\* The array index that addresses the whole value: all bits set, written here
\* as the signed reading of that bit pattern
BACNET_ARRAY_ALL == -1

\* Object_List_Element: the position (1..Objects_Max) of the first element whose
\* object_id is object_instance, scanning from position k; 0 stands for NULL.
RECURSIVE Object_List_Scan(_, _)
Object_List_Scan(object_instance, k) ==
    IF k > Objects_Max THEN 0
    ELSE IF Object_List[k].object_id = object_instance THEN k
    ELSE Object_List_Scan(object_instance, k + 1)

Object_List_Element(object_instance) == Object_List_Scan(object_instance, 1)

\* bool Binary_Value_Valid_Instance(uint32_t object_instance)
Binary_Value_Valid_Instance(object_instance) ==
    Object_List_Element(object_instance) # 0

\* Binary_Value_Present_Value_Set without the is_output test
Binary_Value_Present_Value_Set_AnyPin(object_instance, value) ==
    LET object == Object_List_Element(object_instance) IN
    IF object # 0
      THEN [status |-> TRUE,
            writes |-> <<[pin |-> Object_List[object].pin,
                          active |-> (value = BINARY_ACTIVE)]>>]
      ELSE [status |-> FALSE, writes |-> <<>>]

\* Binary_Value_Present_Value_Set that writes the pin before it tests is_output
Binary_Value_Present_Value_Set_WriteFirst(object_instance, value) ==
    LET object == Object_List_Element(object_instance) IN
    IF object # 0
      THEN [status |-> Object_List[object].is_output,
            writes |-> <<[pin |-> Object_List[object].pin,
                          active |-> (value = BINARY_ACTIVE)]>>]
      ELSE [status |-> FALSE, writes |-> <<>>]

\* bool Binary_Value_Present_Value_Set(object_instance, value): the value it
\* returns and the PIN_WRITE calls it makes
Binary_Value_Present_Value_Set(object_instance, value) ==
    LET object == Object_List_Element(object_instance) IN
    IF object # 0 /\ Object_List[object].is_output
      THEN [status |-> TRUE,
            writes |-> <<[pin |-> Object_List[object].pin,
                          active |-> (value = BINARY_ACTIVE)]>>]
      ELSE [status |-> FALSE, writes |-> <<>>]

\* The request payloads (wp_data->application_data), described by what they
\* encode: undecodable bytes, no bytes, or one application-tagged value.
Payloads ==
    {[kind |-> "malformed", value |-> 0], [kind |-> "empty", value |-> 0],
     [kind |-> "real", value |-> 1]}
    \cup {[kind |-> "enumerated", value |-> v] : v \in {BINARY_INACTIVE, BINARY_ACTIVE, 2}}

\* bacapp_decode_application_data as the handler uses it: the length it returns
\* (negative on a decoding error) and the tag and value it leaves in `value`,
\* which starts as { 0 }.
bacapp_decode_application_data(application_data) ==
    CASE application_data.kind = "malformed" ->
           [len |-> -1, tag |-> "BACNET_APPLICATION_TAG_NULL", Enumerated |-> 0]
      [] application_data.kind = "empty" ->
           [len |-> 0, tag |-> "BACNET_APPLICATION_TAG_NULL", Enumerated |-> 0]
      [] application_data.kind = "real" ->
           [len |-> 5, tag |-> "BACNET_APPLICATION_TAG_REAL",
            Enumerated |-> application_data.value]
      [] OTHER ->
           [len |-> 2, tag |-> "BACNET_APPLICATION_TAG_ENUMERATED",
            Enumerated |-> application_data.value]

\* The properties Binary_Value_Write_Property rejects as not writable
ReadOnlyProperties ==
    {"PROP_OUT_OF_SERVICE", "PROP_OBJECT_IDENTIFIER", "PROP_OBJECT_NAME",
     "PROP_OBJECT_TYPE", "PROP_STATUS_FLAGS", "PROP_EVENT_STATE"}

\* Property identifiers of the requests; PROP_DESCRIPTION is not handled
Properties == {"PROP_PRESENT_VALUE", "PROP_DESCRIPTION"} \cup ReadOnlyProperties

\* Outcome of a handler call: return value, error fields, PIN_WRITE calls
Outcome(status, class, code, writes) ==
    [status |-> status, error_class |-> class, error_code |-> code,
     writes |-> writes]

\* The PROP_PRESENT_VALUE case with the access test moved in front of the tag
\* and value tests
WritePresentValue_AccessFirst(wp, value) ==
    LET set == Binary_Value_Present_Value_Set(wp.object_instance, value.Enumerated) IN
    IF ~set.status
      THEN Outcome(FALSE, "ERROR_CLASS_PROPERTY",
                   "ERROR_CODE_WRITE_ACCESS_DENIED", <<>>)
      ELSE IF value.tag # "BACNET_APPLICATION_TAG_ENUMERATED"
        THEN Outcome(FALSE, "ERROR_CLASS_PROPERTY",
                     "ERROR_CODE_INVALID_DATA_TYPE", <<>>)
        ELSE IF value.Enumerated = BINARY_ACTIVE \/ value.Enumerated = BINARY_INACTIVE
          THEN Outcome(TRUE, wp.error_class, wp.error_code, set.writes)
          ELSE Outcome(FALSE, "ERROR_CLASS_PROPERTY",
                       "ERROR_CODE_VALUE_OUT_OF_RANGE", <<>>)

\* The PROP_PRESENT_VALUE case of Binary_Value_Write_Property
WritePresentValue(wp, value) ==
    IF value.tag = "BACNET_APPLICATION_TAG_ENUMERATED"
      THEN IF value.Enumerated = BINARY_ACTIVE \/ value.Enumerated = BINARY_INACTIVE
             THEN LET set == Binary_Value_Present_Value_Set(
                                 wp.object_instance, value.Enumerated) IN
                  IF ~set.status
                    THEN Outcome(FALSE, "ERROR_CLASS_PROPERTY",
                                 "ERROR_CODE_WRITE_ACCESS_DENIED", set.writes)
                    ELSE Outcome(TRUE, wp.error_class, wp.error_code, set.writes)
             ELSE Outcome(FALSE, "ERROR_CLASS_PROPERTY",
                          "ERROR_CODE_VALUE_OUT_OF_RANGE", <<>>)
      ELSE Outcome(FALSE, "ERROR_CLASS_PROPERTY",
                   "ERROR_CODE_INVALID_DATA_TYPE", <<>>)

\* The read-only case labels missing, so that these properties take the
\* default case
WriteReadOnly_FallThrough(wp) ==
    IF wp.array_index # BACNET_ARRAY_ALL
      THEN Outcome(FALSE, "ERROR_CLASS_PROPERTY",
                   "ERROR_CODE_PROPERTY_IS_NOT_AN_ARRAY", <<>>)
      ELSE Outcome(FALSE, "ERROR_CLASS_PROPERTY",
                   "ERROR_CODE_UNKNOWN_PROPERTY", <<>>)

\* The read-only cases of Binary_Value_Write_Property
WriteReadOnly(wp) ==
    IF wp.array_index # BACNET_ARRAY_ALL
      THEN Outcome(FALSE, "ERROR_CLASS_PROPERTY",
                   "ERROR_CODE_PROPERTY_IS_NOT_AN_ARRAY", <<>>)
      ELSE Outcome(FALSE, "ERROR_CLASS_PROPERTY",
                   "ERROR_CODE_WRITE_ACCESS_DENIED", <<>>)

\* The default case without its array test
WriteUnknown_AnyIndex(wp) ==
    Outcome(FALSE, "ERROR_CLASS_PROPERTY", "ERROR_CODE_UNKNOWN_PROPERTY", <<>>)

\* The default case of Binary_Value_Write_Property
WriteUnknown(wp) ==
    IF wp.array_index # BACNET_ARRAY_ALL
      THEN Outcome(FALSE, "ERROR_CLASS_PROPERTY",
                   "ERROR_CODE_PROPERTY_IS_NOT_AN_ARRAY", <<>>)
      ELSE Outcome(FALSE, "ERROR_CLASS_PROPERTY",
                   "ERROR_CODE_UNKNOWN_PROPERTY", <<>>)

\* Binary_Value_Write_Property decoding the payload before it looks the
\* instance up
WriteOutcome_DecodeFirst(wp) ==
    LET value == bacapp_decode_application_data(wp.application_data) IN
    IF value.len < 0
      THEN Outcome(FALSE, "ERROR_CLASS_PROPERTY",
                   "ERROR_CODE_VALUE_OUT_OF_RANGE", <<>>)
      ELSE IF ~Binary_Value_Valid_Instance(wp.object_instance)
        THEN Outcome(FALSE, "ERROR_CLASS_OBJECT", "ERROR_CODE_UNKNOWN_OBJECT", <<>>)
        ELSE IF wp.object_property = "PROP_PRESENT_VALUE"
          THEN WritePresentValue(wp, value)
          ELSE IF wp.object_property \in ReadOnlyProperties
            THEN WriteReadOnly(wp)
            ELSE WriteUnknown(wp)

\* bool Binary_Value_Write_Property(BACNET_WRITE_PROPERTY_DATA *wp_data):
\* what it returns, writes to wp_data and writes to the pins
WriteOutcome(wp) ==
    IF ~Binary_Value_Valid_Instance(wp.object_instance)
      THEN Outcome(FALSE, "ERROR_CLASS_OBJECT", "ERROR_CODE_UNKNOWN_OBJECT", <<>>)
      ELSE LET value == bacapp_decode_application_data(wp.application_data) IN
           IF value.len < 0
             THEN Outcome(FALSE, "ERROR_CLASS_PROPERTY",
                          "ERROR_CODE_VALUE_OUT_OF_RANGE", <<>>)
             ELSE IF wp.object_property = "PROP_PRESENT_VALUE"
               THEN WritePresentValue(wp, value)
               ELSE IF wp.object_property \in ReadOnlyProperties
                 THEN WriteReadOnly(wp)
                 ELSE WriteUnknown(wp)

\* PIN_WRITE for each call of a handler, in order
RECURSIVE ApplyWrites(_, _)
ApplyWrites(level, writes) ==
    IF writes = <<>> THEN level
    ELSE ApplyWrites([level EXCEPT ![Head(writes).pin] = Head(writes).active],
                     Tail(writes))

\* Instance numbers of the requests: an input, an output, and one that is not
\* in Object_List
RequestInstances == {0, 5, 50}

\* Array indices of the requests
RequestIndices == {BACNET_ARRAY_ALL, 1}

\* The requests the protocol layer hands over, error fields not yet set
Requests ==
    [object_instance : RequestInstances, object_property : Properties,
     array_index : RequestIndices, application_data : Payloads,
     error_class : {"unset"}, error_code : {"unset"}]

\* Binary_Value_Init: outputs are driven low; inputs are taken as low.  No
\* request has been handled yet: wp_data names no property.
BVInit ==
    /\ pin_level = [p \in Pins |-> FALSE]
    /\ wp_data = [object_instance |-> 0, object_property |-> "none",
                  array_index |-> BACNET_ARRAY_ALL,
                  application_data |-> [kind |-> "empty", value |-> 0],
                  error_class |-> "unset", error_code |-> "unset"]
    /\ wp_status = FALSE
    /\ pin_writes = <<>>

\* A call of Binary_Value_Write_Property with request wp
Binary_Value_Write_Property(wp) ==
    LET out == WriteOutcome(wp) IN
    /\ wp_data' = [wp EXCEPT !.error_class = out.error_class,
                             !.error_code = out.error_code]
    /\ wp_status' = out.status
    /\ pin_writes' = out.writes
    /\ pin_level' = ApplyWrites(pin_level, out.writes)

\* The wiring changes the level of the input pin of an addressed object
InputChange(k) ==
    /\ ~Object_List[k].is_output
    /\ Object_List[k].object_id \in RequestInstances
    /\ pin_level' = [pin_level EXCEPT ![Object_List[k].pin] = ~@]
    /\ UNCHANGED <<wp_data, wp_status, pin_writes>>

BVWrite == \E wp \in Requests : Binary_Value_Write_Property(wp)
BVInputChange == \E k \in 1..Objects_Max : InputChange(k)

(***************************************************************************)
(* bv.c: the Binary Value ReadProperty handler                             *)
(***************************************************************************)

\* The value a failing handler returns
BACNET_STATUS_ERROR == -1

\* The object type the handler encodes (bacenum.h: binary-value is 5)
OBJECT_BINARY_VALUE == 5

\* The event state the handler encodes (bacenum.h: normal is 0)
EVENT_STATE_NORMAL == 0

\* The bits the handler sets in the status-flags bit string
StatusFlags ==
    {"STATUS_FLAG_IN_ALARM", "STATUS_FLAG_FAULT", "STATUS_FLAG_OVERRIDDEN",
     "STATUS_FLAG_OUT_OF_SERVICE"}

\* const char *Binary_Value_Name_ASCII(object_instance)
Binary_Value_Name_ASCII(object_instance) ==
    LET object == Object_List_Element(object_instance) IN
    IF object # 0 THEN Object_List[object].object_name ELSE "BV-X"

\* Binary_Value_Present_Value that never samples the pin
Binary_Value_Present_Value_NoPinRead(object_instance, level) ==
    BINARY_INACTIVE

\* BACNET_BINARY_PV Binary_Value_Present_Value(object_instance), with the
\* pin levels PIN_READ sees
Binary_Value_Present_Value(object_instance, level) ==
    LET object == Object_List_Element(object_instance) IN
    IF object # 0 /\ level[Object_List[object].pin]
      THEN BINARY_ACTIVE
      ELSE BINARY_INACTIVE

\* The application data buffer before the handler writes to it
NoApdu == [tag |-> "none", value |-> 0]

\* The encode_application_* functions of the protocol library: the tagged
\* value they put in the buffer.  The handler uses only the length they
\* return, which is positive for each of these values (tag octet plus
\* content; the character string is counted for a two-character name).
Encoded(tag, value) ==
    [apdu |-> [tag |-> tag, value |-> value],
     apdu_len |-> CASE tag = "OBJECT_ID" -> 5
                    [] tag = "CHARACTER_STRING" -> 4
                    [] tag = "ENUMERATED" -> 2
                    [] tag = "BIT_STRING" -> 3
                    [] OTHER -> 1,
     error_class |-> "unset", error_code |-> "unset"]

\* The switch over rpdata->object_property
ReadSwitch(rp, level) ==
    CASE rp.object_property = "PROP_OBJECT_IDENTIFIER" ->
           Encoded("OBJECT_ID", [type |-> OBJECT_BINARY_VALUE,
                                 instance |-> rp.object_instance])
      [] rp.object_property = "PROP_OBJECT_NAME" ->
           Encoded("CHARACTER_STRING", Binary_Value_Name_ASCII(rp.object_instance))
      [] rp.object_property = "PROP_OBJECT_TYPE" ->
           Encoded("ENUMERATED", OBJECT_BINARY_VALUE)
      [] rp.object_property = "PROP_PRESENT_VALUE" ->
           Encoded("ENUMERATED",
                   Binary_Value_Present_Value(rp.object_instance, level))
      [] rp.object_property = "PROP_STATUS_FLAGS" ->
           Encoded("BIT_STRING", [f \in StatusFlags |-> FALSE])
      [] rp.object_property = "PROP_EVENT_STATE" ->
           Encoded("ENUMERATED", EVENT_STATE_NORMAL)
      [] rp.object_property = "PROP_OUT_OF_SERVICE" ->
           Encoded("BOOLEAN", FALSE)
      [] OTHER ->
           [apdu |-> NoApdu, apdu_len |-> BACNET_STATUS_ERROR,
            error_class |-> "ERROR_CLASS_PROPERTY",
            error_code |-> "ERROR_CODE_UNKNOWN_PROPERTY"]

\* The array test applied whether or not the switch has failed
ReadArrayCheck_NoLenGuard(rp, out) ==
    IF rp.array_index # BACNET_ARRAY_ALL
      THEN [out EXCEPT !.error_class = "ERROR_CLASS_PROPERTY",
                       !.error_code = "ERROR_CODE_PROPERTY_IS_NOT_AN_ARRAY",
                       !.apdu_len = BACNET_STATUS_ERROR]
      ELSE out

\* The array test left out
ReadArrayCheck_Skipped(rp, out) ==
    out

\* "only array properties can have array options": the test after the switch
ReadArrayCheck(rp, out) ==
    IF out.apdu_len >= 0 /\ rp.array_index # BACNET_ARRAY_ALL
      THEN [out EXCEPT !.error_class = "ERROR_CLASS_PROPERTY",
                       !.error_code = "ERROR_CODE_PROPERTY_IS_NOT_AN_ARRAY",
                       !.apdu_len = BACNET_STATUS_ERROR]
      ELSE out

\* The read handler with the instance test of the write handler in front
ReadOutcome_InstanceCheck(rp, level) ==
    IF ~Binary_Value_Valid_Instance(rp.object_instance)
      THEN [apdu |-> NoApdu, apdu_len |-> BACNET_STATUS_ERROR,
            error_class |-> "ERROR_CLASS_OBJECT",
            error_code |-> "ERROR_CODE_UNKNOWN_OBJECT"]
      ELSE ReadArrayCheck(rp, ReadSwitch(rp, level))

\* int Binary_Value_Read_Property(BACNET_READ_PROPERTY_DATA *rpdata): what it
\* returns, leaves in the buffer and writes to the error fields
ReadOutcome(rp, level) == ReadArrayCheck(rp, ReadSwitch(rp, level))

\* The read requests the protocol layer hands over, error fields not yet set
ReadRequests ==
    [object_instance : RequestInstances, object_property : Properties,
     array_index : RequestIndices,
     error_class : {"unset"}, error_code : {"unset"}]

\* The present-value writes that can succeed
PresentValueRequests ==
    {wp \in Requests :
        /\ wp.object_property = "PROP_PRESENT_VALUE"
        /\ wp.array_index = BACNET_ARRAY_ALL
        /\ wp.application_data.kind = "enumerated"
        /\ wp.application_data.value \in {BINARY_INACTIVE, BINARY_ACTIVE}}

\* No read request has been handled yet: rp_data names no property
BVReadInit ==
    /\ rp_data = [object_instance |-> 0, object_property |-> "none",
                  array_index |-> BACNET_ARRAY_ALL,
                  error_class |-> "unset", error_code |-> "unset"]
    /\ rp_len = 0
    /\ rp_apdu = NoApdu
    /\ rp_level = [p \in Pins |-> FALSE]

\* A call of Binary_Value_Read_Property with request rp
Binary_Value_Read_Property(rp) ==
    LET out == ReadOutcome(rp, pin_level) IN
    /\ rp_data' = [rp EXCEPT !.error_class = out.error_class,
                             !.error_code = out.error_code]
    /\ rp_len' = out.apdu_len
    /\ rp_apdu' = out.apdu
    /\ rp_level' = pin_level

BVRead == \E rp \in ReadRequests : Binary_Value_Read_Property(rp)
BVWritePresentValue ==
    \E wp \in PresentValueRequests : Binary_Value_Write_Property(wp)

(***************************************************************************)
(* BACnetBinaryValue: a Binary Value object of the library and the digital *)
(* pin it is bound to.  Each pin is bound to at most one object, so the    *)
(* level of the pin is driven by this object or by the circuit.            *)
(***************************************************************************)

\* The pins the object is constructed on or bound to: none, or digital pin 7
BinPinArgs == {-1, 7}

\* The modes setPin is called with
PinModes == {"OUTPUT", "INPUT", "INPUT_PULLUP"}

\* The fields a call changes together with the level of the pin and the
\* digitalWrite calls made so far
BinObject ==
    [present |-> bin_present_value, previous |-> bin_previous_value,
     time |-> bin_last_cov_time, level |-> bin_level, writes |-> <<>>]

\* The constructor with the default pin -1: no pin is touched, and the pin
\* is an input as after reset
BinaryValueInit ==
    /\ bin_present_value = BINARY_INACTIVE
    /\ bin_previous_value = BINARY_INACTIVE
    /\ bin_pin = -1
    /\ bin_pin_mode = "OUTPUT"
    /\ bin_cov_enabled = FALSE
    /\ bin_last_cov_time = 0
    /\ bin_level = FALSE
    /\ bin_hw_mode = "INPUT"
    /\ bin_call = [op |-> "BACnetBinaryValue", arg |-> -1, sample |-> FALSE,
                   present |-> BINARY_INACTIVE, previous |-> BINARY_INACTIVE,
                   time |-> 0, now |-> 0, writes |-> <<>>]

\* The record of a call that starts in the current state
BinCalled(op, arg, sample, writes) ==
    bin_call' = [op |-> op, arg |-> arg, sample |-> sample,
                 present |-> bin_present_value,
                 previous |-> bin_previous_value,
                 time |-> bin_last_cov_time, now |-> millis,
                 writes |-> writes]

\* The fields of o become the fields of the object and the level of the pin
BinStore(o) ==
    /\ bin_present_value' = o.present
    /\ bin_previous_value' = o.previous
    /\ bin_last_cov_time' = o.time
    /\ bin_level' = o.level

\* void BACnetBinaryValue::writePin() on an object bound to pin in mode
writePinOf(o, pin, mode) ==
    IF pin >= 0 /\ mode = "OUTPUT"
      THEN [o EXCEPT !.level = (o.present = BINARY_ACTIVE),
                     !.writes = Append(@, o.present = BINARY_ACTIVE)]
      ELSE o

\* setValue that keeps the previous value when the new value is the old one
setValueOf_KeepPreviousOnSame(o, value, pin, mode) ==
    LET stored == IF value = o.present
                    THEN o
                    ELSE [o EXCEPT !.previous = o.present, !.present = value]
        written == IF pin >= 0 /\ mode = "OUTPUT"
                     THEN writePinOf(stored, pin, mode)
                     ELSE stored
    IN  IF bin_cov_enabled /\ written.present # written.previous
          THEN [written EXCEPT !.time = millis]
          ELSE written

\* setValue that leaves the pin as it is
setValueOf_NoWrite(o, value, pin, mode) ==
    LET stored == [o EXCEPT !.previous = o.present, !.present = value]
    IN  IF bin_cov_enabled /\ stored.present # stored.previous
          THEN [stored EXCEPT !.time = millis]
          ELSE stored

\* setValue that records a timestamp on every call while COV is enabled
setValueOf_AlwaysStamp(o, value, pin, mode) ==
    LET stored == [o EXCEPT !.previous = o.present, !.present = value]
        written == IF pin >= 0 /\ mode = "OUTPUT"
                     THEN writePinOf(stored, pin, mode)
                     ELSE stored
    IN  IF bin_cov_enabled
          THEN [written EXCEPT !.time = millis]
          ELSE written

\* void BACnetBinaryValue::setValue(BACnetBinaryState value)
setValueOf(o, value, pin, mode) ==
    LET stored == [o EXCEPT !.previous = o.present, !.present = value]
        written == IF pin >= 0 /\ mode = "OUTPUT"
                     THEN writePinOf(stored, pin, mode)
                     ELSE stored
    IN  IF bin_cov_enabled /\ written.present # written.previous
          THEN [written EXCEPT !.time = millis]
          ELSE written

\* setValue(bool) with the two states exchanged
setValueBoolOf_Inverted(o, value, pin, mode) ==
    setValueOf(o, IF value THEN BINARY_INACTIVE ELSE BINARY_ACTIVE, pin, mode)

\* void BACnetBinaryValue::setValue(bool value)
setValueBoolOf(o, value, pin, mode) ==
    setValueOf(o, IF value THEN BINARY_ACTIVE ELSE BINARY_INACTIVE, pin, mode)

\* BACnetBinaryState BACnetBinaryValue::getValue() const
BinaryValue_getValue == bin_present_value

\* bool BACnetBinaryValue::getValueBool() const
BinaryValue_getValueBool == bin_present_value = BINARY_ACTIVE

\* readPin that calls setValue with every sample
readPinOf_NoCompare(o, pin, mode) ==
    IF pin >= 0
      THEN setValueBoolOf(o, o.level, pin, mode)
      ELSE o

\* void BACnetBinaryValue::readPin(): digitalRead(_pin) returns the level
\* of the pin
readPinOf(o, pin, mode) ==
    IF pin >= 0
      THEN LET pin_state == o.level IN
           IF pin_state # (o.present = BINARY_ACTIVE)
             THEN setValueBoolOf(o, pin_state, pin, mode)
             ELSE o
      ELSE o

\* BACnetBinaryValue(instance, name, pin) with a pin: the constructor of the
\* object, in place of the one with the default pin
BinaryValue_onPin(pin) ==
    /\ bin_call.op = "BACnetBinaryValue"
    /\ bin_call.arg = -1
    /\ pin >= 0
    /\ bin_pin' = pin
    /\ bin_hw_mode' = "OUTPUT"
    /\ bin_level' = FALSE
    /\ bin_call' = [bin_call EXCEPT !.arg = pin, !.writes = <<FALSE>>]
    /\ UNCHANGED <<bin_present_value, bin_previous_value, bin_pin_mode,
                   bin_cov_enabled, bin_last_cov_time>>

\* setValue(BACnetBinaryState value) called from the sketch
BinaryValue_setValue(value) ==
    LET o == setValueOf(BinObject, value, bin_pin, bin_pin_mode) IN
    /\ BinStore(o)
    /\ BinCalled("setValue", value, bin_level, o.writes)
    /\ UNCHANGED <<bin_pin, bin_pin_mode, bin_cov_enabled, bin_hw_mode>>

\* setValue(bool value) called from the sketch
BinaryValue_setValueBool(value) ==
    LET o == setValueBoolOf(BinObject, value, bin_pin, bin_pin_mode) IN
    /\ BinStore(o)
    /\ BinCalled("setValue(bool)", IF value THEN 1 ELSE 0, bin_level, o.writes)
    /\ UNCHANGED <<bin_pin, bin_pin_mode, bin_cov_enabled, bin_hw_mode>>

\* void BACnetBinaryValue::setPin(int8_t pin, uint8_t mode): pinMode, then
\* writePin() on an output and readPin() on an input, whose level is what
\* the circuit gives once the pin is an input
BinaryValue_setPin(pin, mode) ==
    /\ bin_pin' = pin
    /\ bin_pin_mode' = mode
    /\ IF pin >= 0
         THEN /\ bin_hw_mode' = mode
              /\ IF mode = "OUTPUT"
                   THEN LET o == writePinOf(BinObject, pin, mode) IN
                        /\ BinStore(o)
                        /\ BinCalled("setPin", pin, bin_level, o.writes)
                   ELSE \E sample \in BOOLEAN :
                        LET o == readPinOf([BinObject EXCEPT !.level = sample],
                                           pin, mode) IN
                        /\ BinStore(o)
                        /\ BinCalled("setPin", pin, sample, o.writes)
         ELSE /\ BinCalled("setPin", pin, bin_level, <<>>)
              /\ UNCHANGED <<bin_present_value, bin_previous_value,
                             bin_last_cov_time, bin_level, bin_hw_mode>>
    /\ UNCHANGED bin_cov_enabled

\* readPin() called from the sketch
BinaryValue_readPin ==
    LET o == readPinOf(BinObject, bin_pin, bin_pin_mode) IN
    /\ BinStore(o)
    /\ BinCalled("readPin", 0, bin_level, o.writes)
    /\ UNCHANGED <<bin_pin, bin_pin_mode, bin_cov_enabled, bin_hw_mode>>

\* writePin() called from the sketch
BinaryValue_writePin ==
    LET o == writePinOf(BinObject, bin_pin, bin_pin_mode) IN
    /\ BinStore(o)
    /\ BinCalled("writePin", 0, bin_level, o.writes)
    /\ UNCHANGED <<bin_pin, bin_pin_mode, bin_cov_enabled, bin_hw_mode>>

\* void BACnetBinaryValue::update()
BinaryValue_update ==
    LET o == IF bin_pin >= 0 /\ bin_pin_mode # "OUTPUT"
               THEN readPinOf(BinObject, bin_pin, bin_pin_mode)
               ELSE BinObject IN
    /\ BinStore(o)
    /\ BinCalled("update", 0, bin_level, o.writes)
    /\ UNCHANGED <<bin_pin, bin_pin_mode, bin_cov_enabled, bin_hw_mode>>

\* void BACnetBinaryValue::enableCOV()
BinaryValue_enableCOV ==
    /\ bin_cov_enabled' = TRUE
    /\ BinCalled("enableCOV", 0, bin_level, <<>>)
    /\ UNCHANGED <<bin_present_value, bin_previous_value, bin_pin,
                   bin_pin_mode, bin_last_cov_time, bin_level, bin_hw_mode>>

\* void BACnetBinaryValue::disableCOV()
BinaryValue_disableCOV ==
    /\ bin_cov_enabled' = FALSE
    /\ BinCalled("disableCOV", 0, bin_level, <<>>)
    /\ UNCHANGED <<bin_present_value, bin_previous_value, bin_pin,
                   bin_pin_mode, bin_last_cov_time, bin_level, bin_hw_mode>>

\* The circuit changes the level of the pin while the pin is an input
BinaryValue_InputChange ==
    /\ bin_hw_mode # "OUTPUT"
    /\ bin_level' = ~bin_level
    /\ UNCHANGED <<bin_present_value, bin_previous_value, bin_pin,
                   bin_pin_mode, bin_cov_enabled, bin_last_cov_time,
                   bin_hw_mode, bin_call>>

BinConstructOnPin == \E pin \in BinPinArgs : BinaryValue_onPin(pin)
BinSetValue ==
    \E value \in {BINARY_INACTIVE, BINARY_ACTIVE} : BinaryValue_setValue(value)
BinSetValueBool == \E value \in BOOLEAN : BinaryValue_setValueBool(value)
BinSetPin ==
    \E pin \in BinPinArgs, mode \in PinModes : BinaryValue_setPin(pin, mode)

(***************************************************************************)
(* rs485.cpp: the half-duplex transceiver of the MS/TP datalink            *)
(***************************************************************************)

\* Longest buffer handed to RS485_Send_Data
MaxBytes == 2

\* Capacity of the receive buffer of the serial port
MaxRx == 1

\* static const uint8_t RS485_Enable_Pin
RS485_Enable_Pin == 2

\* The baud rates RS485_Set_Baud_Rate accepts
AllowedBauds == {9600, 19200, 38400, 57600, 76800, 115200}

\* The arguments RS485_Set_Baud_Rate is called with: the allowed rates, one
\* that is not allowed, and zero
BaudArgs == AllowedBauds \cup {0, 1200}

\* mstimer_elapsed(&t): the time since t was set
mstimer_elapsed(t) == mstimer_now - t.start

\* unsigned long RS485_Timer_Silence(void)
RS485_Timer_Silence == mstimer_elapsed(Silence_Timer)

\* mstimer_set(&Silence_Timer, 0), as RS485_Timer_Silence_Reset calls it
RS485_Timer_Silence_Reset ==
    Silence_Timer' = [start |-> mstimer_now, interval |-> 0]

\* The statics as the loader leaves them; the pin is an input until pinMode
RS485Init ==
    /\ RS485_Baud = 9600
    /\ Silence_Timer = [start |-> 0, interval |-> 0]
    /\ mstimer_now = 0
    /\ rs_pin_mode = "INPUT"
    /\ rs_pin_level = FALSE
    /\ rs_port_baud = 0
    /\ rs_tx_pending = 0
    /\ rs_rx_available = 0
    /\ rs_pc = "idle"
    /\ rs_nbytes = 0
    /\ rs_accepted = 0
    /\ rs_log = <<>>
    /\ rs_call = [op |-> "none", arg |-> 0, ret |-> FALSE,
                  restarted |-> FALSE, us |-> 0]

\* The datalink calls the other functions after RS485_Initialize and from
\* one thread: a call starts when no send is in progress
RS485_Ready == rs_pin_mode = "OUTPUT" /\ rs_pc = "idle"

\* void RS485_Initialize(void)
RS485_Initialize ==
    /\ rs_pc = "idle"
    /\ rs_pin_mode' = "OUTPUT"
    /\ rs_pin_level' = FALSE
    /\ rs_port_baud' = RS485_Baud
    /\ RS485_Timer_Silence_Reset
    /\ UNCHANGED <<RS485_Baud, mstimer_now, rs_tx_pending, rs_rx_available,
                   rs_pc, rs_nbytes, rs_log,
                   rs_accepted,
                   rs_call>>

\* uint32_t RS485_Get_Baud_Rate(void)
RS485_Get_Baud_Rate == RS485_Baud

\* RS485_Set_Baud_Rate taking every rate but zero
RS485_Set_Baud_Rate_AnyNonZero(baud) ==
    /\ RS485_Ready
    /\ IF baud # 0
         THEN /\ RS485_Baud' = baud
              /\ rs_port_baud' = baud
              /\ rs_rx_available' = 0
              /\ rs_call' = [op |-> "RS485_Set_Baud_Rate", arg |-> baud,
                             ret |-> TRUE, restarted |-> TRUE, us |-> 0]
         ELSE /\ rs_call' = [op |-> "RS485_Set_Baud_Rate", arg |-> baud,
                             ret |-> FALSE, restarted |-> FALSE, us |-> 0]
              /\ UNCHANGED <<RS485_Baud, rs_port_baud, rs_rx_available>>
    /\ UNCHANGED <<Silence_Timer, mstimer_now, rs_pin_mode, rs_pin_level,
                   rs_tx_pending, rs_pc, rs_nbytes, rs_log,
                   rs_accepted>>

\* bool RS485_Set_Baud_Rate(uint32_t baud): the six cases store the rate,
\* end() the port (which drops what it had received), begin() it again and
\* return true; the default case returns false
RS485_Set_Baud_Rate(baud) ==
    /\ RS485_Ready
    /\ IF baud \in AllowedBauds
         THEN /\ RS485_Baud' = baud
              /\ rs_port_baud' = baud
              /\ rs_rx_available' = 0
              /\ rs_call' = [op |-> "RS485_Set_Baud_Rate", arg |-> baud,
                             ret |-> TRUE, restarted |-> TRUE, us |-> 0]
         ELSE /\ rs_call' = [op |-> "RS485_Set_Baud_Rate", arg |-> baud,
                             ret |-> FALSE, restarted |-> FALSE, us |-> 0]
              /\ UNCHANGED <<RS485_Baud, rs_port_baud, rs_rx_available>>
    /\ UNCHANGED <<Silence_Timer, mstimer_now, rs_pin_mode, rs_pin_level,
                   rs_tx_pending, rs_pc, rs_nbytes, rs_log,
                   rs_accepted>>

\* The largest factor of 1000000 whose product an unsigned long of 32 bits
\* holds: 4294967295 / 1000000
ULONG_MAX_PER_MILLION == 4294

\* The delay computed in arithmetic of 16 bits
BitTimesMicros_16Bit(bits, baud) ==
    ((bits * 1000000) % 65536) \div baud

\* (bits * 1000000UL) / baud in unsigned long arithmetic: the product wraps
\* when bits exceeds ULONG_MAX_PER_MILLION, which is recorded as -1; the
\* quotient truncates
BitTimesMicros(bits, baud) ==
    IF bits > ULONG_MAX_PER_MILLION THEN -1 ELSE (bits * 1000000) \div baud

\* The delay of RS485_Turnaround_Delay at a rate: 40 bit times
TurnaroundMicros(baud) ==
    BitTimesMicros(40, baud)

\* void RS485_Turnaround_Delay(void): delayMicroseconds(us) returns after us
\* microseconds.  A division by zero is undefined: the call traps or waits
\* any time, recorded as the call "undefined"
RS485_Turnaround_Delay ==
    /\ RS485_Ready
    /\ IF RS485_Baud = 0
         THEN rs_call' = [op |-> "undefined", arg |-> 0, ret |-> FALSE,
                          restarted |-> FALSE, us |-> 0]
         ELSE rs_call' = [op |-> "RS485_Turnaround_Delay",
                          arg |-> RS485_Baud, ret |-> FALSE,
                          restarted |-> FALSE,
                          us |-> TurnaroundMicros(RS485_Baud)]
    /\ UNCHANGED <<RS485_Baud, Silence_Timer, mstimer_now, rs_pin_mode,
                   rs_pin_level, rs_port_baud, rs_tx_pending,
                   rs_rx_available, rs_pc, rs_nbytes, rs_accepted, rs_log>>

\* bool RS485_DataAvailable(uint8_t *data): takes one byte if there is one
RS485_DataAvailable ==
    /\ RS485_Ready
    /\ rs_rx_available' = IF rs_rx_available > 0 THEN rs_rx_available - 1
                                                 ELSE rs_rx_available
    /\ UNCHANGED <<RS485_Baud, Silence_Timer, mstimer_now, rs_pin_mode,
                   rs_pin_level, rs_port_baud, rs_tx_pending, rs_pc,
                   rs_nbytes, rs_log,
                   rs_accepted,
                   rs_call>>

\* RS485_Send_Data, first statement: RS485_Transmitter_Enable(true)
RS485_Send_Enable(nbytes) ==
    /\ RS485_Ready
    /\ rs_pin_level' = TRUE
    /\ rs_nbytes' = nbytes
    /\ rs_pc' = "write"
    /\ rs_log' = <<"enable">>
    /\ UNCHANGED <<RS485_Baud, Silence_Timer, mstimer_now, rs_pin_mode,
                   rs_port_baud, rs_tx_pending, rs_rx_available,
                   rs_accepted,
                   rs_call>>

\* A write step that returns from the send call when the port took fewer
\* bytes than it was given
RS485_Send_Write_ReturnOnShort ==
    /\ rs_pc = "write"
    /\ \E accepted \in 0..rs_nbytes :
          /\ rs_tx_pending' = rs_tx_pending + accepted
          /\ rs_accepted' = accepted
          /\ rs_pc' = IF accepted < rs_nbytes THEN "idle" ELSE "flush"
    /\ rs_log' = Append(rs_log, "write")
    /\ UNCHANGED <<RS485_Baud, Silence_Timer, mstimer_now, rs_pin_mode,
                   rs_pin_level, rs_port_baud, rs_rx_available, rs_nbytes,
                   rs_call>>

\* RS485_Send_Data, second statement: RS485_PORT.write(buffer, nbytes).  The
\* whole buffer is given to the port in one call; the port takes all of it,
\* part of it or none, and the count it returns is not looked at
RS485_Send_Write ==
    /\ rs_pc = "write"
    /\ \E accepted \in 0..rs_nbytes :
          /\ rs_tx_pending' = rs_tx_pending + accepted
          /\ rs_accepted' = accepted
    /\ rs_pc' = "flush"
    /\ rs_log' = Append(rs_log, "write")
    /\ UNCHANGED <<RS485_Baud, Silence_Timer, mstimer_now, rs_pin_mode,
                   rs_pin_level, rs_port_baud, rs_rx_available, rs_nbytes,
                   rs_call>>

\* A flush that returns at once
RS485_Send_Flush_NoWait ==
    /\ rs_pc = "flush"
    /\ rs_pc' = "disable"
    /\ rs_log' = Append(rs_log, "flush")
    /\ UNCHANGED <<RS485_Baud, Silence_Timer, mstimer_now, rs_pin_mode,
                   rs_pin_level, rs_port_baud, rs_tx_pending, rs_rx_available,
                   rs_nbytes,
                   rs_accepted,
                   rs_call>>

\* RS485_Send_Data, third statement: RS485_PORT.flush() returns once the
\* port has transmitted everything it accepted
RS485_Send_Flush ==
    /\ rs_pc = "flush"
    /\ rs_tx_pending = 0
    /\ rs_pc' = "disable"
    /\ rs_log' = Append(rs_log, "flush")
    /\ UNCHANGED <<RS485_Baud, Silence_Timer, mstimer_now, rs_pin_mode,
                   rs_pin_level, rs_port_baud, rs_tx_pending, rs_rx_available,
                   rs_nbytes,
                   rs_accepted,
                   rs_call>>

\* RS485_Send_Data, fourth statement: RS485_Transmitter_Enable(false)
RS485_Send_Disable ==
    /\ rs_pc = "disable"
    /\ rs_pin_level' = FALSE
    /\ rs_pc' = "reset"
    /\ rs_log' = Append(rs_log, "disable")
    /\ UNCHANGED <<RS485_Baud, Silence_Timer, mstimer_now, rs_pin_mode,
                   rs_port_baud, rs_tx_pending, rs_rx_available, rs_nbytes,
                   rs_accepted,
                   rs_call>>

\* RS485_Send_Data, last statement: RS485_Timer_Silence_Reset(), and return
RS485_Send_Reset ==
    /\ rs_pc = "reset"
    /\ RS485_Timer_Silence_Reset
    /\ rs_pc' = "idle"
    /\ rs_log' = Append(rs_log, "reset")
    /\ UNCHANGED <<RS485_Baud, mstimer_now, rs_pin_mode, rs_pin_level,
                   rs_port_baud, rs_tx_pending, rs_rx_available, rs_nbytes,
                   rs_accepted,
                   rs_call>>

\* The UART finishes transmitting one byte
RS485_PORT_Transmit ==
    /\ rs_tx_pending > 0
    /\ rs_tx_pending' = rs_tx_pending - 1
    /\ UNCHANGED <<RS485_Baud, Silence_Timer, mstimer_now, rs_pin_mode,
                   rs_pin_level, rs_port_baud, rs_rx_available, rs_pc,
                   rs_nbytes, rs_log,
                   rs_accepted,
                   rs_call>>

\* The UART, once begun, receives one byte from the bus
RS485_PORT_Receive ==
    /\ rs_port_baud # 0
    /\ rs_rx_available < MaxRx
    /\ rs_rx_available' = rs_rx_available + 1
    /\ UNCHANGED <<RS485_Baud, Silence_Timer, mstimer_now, rs_pin_mode,
                   rs_pin_level, rs_port_baud, rs_tx_pending, rs_pc,
                   rs_nbytes, rs_log,
                   rs_accepted,
                   rs_call>>

\* While the pin is an input nothing drives the enable line of the
\* transceiver: its level is whatever the board gives
RS485_PinFloats ==
    /\ rs_pin_mode = "INPUT"
    /\ rs_pin_level' = ~rs_pin_level
    /\ UNCHANGED <<RS485_Baud, Silence_Timer, mstimer_now, rs_pin_mode,
                   rs_port_baud, rs_tx_pending, rs_rx_available, rs_pc,
                   rs_nbytes, rs_accepted, rs_log,
                   rs_call>>

\* millis() advances by one millisecond
RS485_Tick ==
    /\ mstimer_now < MaxMillis
    /\ mstimer_now' = mstimer_now + 1
    /\ UNCHANGED <<RS485_Baud, Silence_Timer, rs_pin_mode, rs_pin_level,
                   rs_port_baud, rs_tx_pending, rs_rx_available, rs_pc,
                   rs_nbytes, rs_log,
                   rs_accepted,
                   rs_call>>

RS485SetBaud == \E baud \in BaudArgs : RS485_Set_Baud_Rate(baud)
RS485SendData == \E nbytes \in 0..MaxBytes : RS485_Send_Enable(nbytes)

(***************************************************************************)
(* BACnetRS485: the transceiver class of the library                       *)
(***************************************************************************)

\* The DE/RE pin of the board tier modelled (BACnetConfig.h, Uno shield)
BACNET_RS485_ENABLE_PIN == 2

\* The port begin() binds: &BACNET_MSTP_SERIAL, or the caller's port
BACNET_MSTP_SERIAL == 1

\* enable_pin arguments of begin(): no pin (auto-direction) or the DE/RE pin
EnablePinArgs == {-1, BACNET_RS485_ENABLE_PIN}

\* baud_rate arguments of begin(): a standard rate and one that is not
HalBaudArgs == {1200, 9600}

\* The static members as initialized; the DE/RE pin is an input until pinMode
HALInit ==
    /\ _serial = nullptr
    /\ _enable_pin = -1
    /\ _auto_direction = FALSE
    /\ _baud_rate = 38400
    /\ hal_pin_mode = "INPUT"
    /\ hal_pin_level = FALSE
    /\ hal_tx_pending = 0
    /\ hal_rx_available = 0
    /\ hal_pc = "idle"
    /\ hal_size = 0
    /\ hal_result = [op |-> "none", value |-> 0]
    /\ hal_buffer = nullptr
    /\ hal_log = <<>>

\* An entry of hal_log: a function called and its argument
HalCall(call, arg) == [call |-> call, arg |-> arg]

\* void BACnetRS485::setReceiveMode() with the pin number it tests, called
\* when the call in progress has made the calls in log
setReceiveMode(enable_pin, log) ==
    IF enable_pin >= 0
      THEN /\ hal_pin_level' = FALSE
           /\ hal_log' = Append(log, HalCall("digitalWrite", 0))
      ELSE /\ hal_pin_level' = hal_pin_level
           /\ hal_log' = log

\* setTransmitMode without its test of the pin number
setTransmitMode_NoPinTest(log) ==
    /\ hal_pin_level' = TRUE
    /\ hal_log' = Append(log, HalCall("digitalWrite", 1))

\* void BACnetRS485::setTransmitMode()
setTransmitMode(log) ==
    IF _enable_pin >= 0
      THEN /\ hal_pin_level' = TRUE
           /\ hal_log' = Append(log, HalCall("digitalWrite", 1))
      ELSE /\ hal_pin_level' = hal_pin_level
           /\ hal_log' = log

\* void BACnetRS485::begin(HardwareSerial& serial_port, int8_t enable_pin,
\* uint32_t baud_rate); begin(uint32_t baud_rate) is this with the board's
\* port and pin.  Called from the sketch, between other calls.
begin(serial_port, enable_pin, baud_rate) ==
    LET begun == <<HalCall("begin", enable_pin),
                   HalCall("serial_begin", baud_rate)>> IN
    /\ hal_pc = "idle"
    /\ _serial' = serial_port
    /\ _enable_pin' = enable_pin
    /\ _auto_direction' = (enable_pin = -1)
    /\ _baud_rate' = baud_rate
    /\ hal_pin_mode' = IF enable_pin >= 0 THEN "OUTPUT" ELSE hal_pin_mode
    /\ setReceiveMode(enable_pin,
                      IF enable_pin >= 0
                        THEN Append(begun, HalCall("pinMode", enable_pin))
                        ELSE begun)
    /\ UNCHANGED <<hal_tx_pending, hal_rx_available, hal_pc, hal_size,
                   hal_result, hal_buffer>>

\* int BACnetRS485::read(): a byte of the port (taken as 1), or -1 when the
\* port has none or no port is bound
read ==
    /\ hal_pc = "idle"
    /\ IF _serial # nullptr /\ hal_rx_available > 0
         THEN /\ hal_rx_available' = hal_rx_available - 1
              /\ hal_result' = [op |-> "read", value |-> 1]
         ELSE /\ hal_result' = [op |-> "read", value |-> -1]
              /\ UNCHANGED hal_rx_available
    /\ hal_log' = IF _serial # nullptr
                    THEN <<HalCall("read", 0), HalCall("serial_read", 0)>>
                    ELSE <<HalCall("read", 0)>>
    /\ UNCHANGED <<_serial, _enable_pin, _auto_direction, _baud_rate,
                   hal_pin_mode, hal_pin_level, hal_tx_pending, hal_pc,
                   hal_size, hal_buffer>>

\* size_t BACnetRS485::write(const uint8_t* buffer, size_t size), up to the
\* call of _serial->write: the null tests and setTransmitMode()
write(buffer, size) ==
    /\ hal_pc = "idle"
    /\ hal_buffer' = buffer
    /\ IF _serial # nullptr /\ buffer # nullptr
         THEN /\ IF ~_auto_direction
                   THEN setTransmitMode(<<HalCall("write", size)>>)
                   ELSE /\ hal_log' = <<HalCall("write", size)>>
                        /\ UNCHANGED hal_pin_level
              /\ hal_pc' = "write"
              /\ hal_size' = size
              /\ UNCHANGED hal_result
         ELSE /\ hal_result' = [op |-> "write", value |-> 0]
              /\ hal_log' = <<HalCall("write", size)>>
              /\ UNCHANGED <<hal_pin_level, hal_pc, hal_size>>
    /\ UNCHANGED <<_serial, _enable_pin, _auto_direction, _baud_rate,
                   hal_pin_mode, hal_tx_pending, hal_rx_available>>

\* MaxBytes is also the room in the transmit buffer of the port
Min(a, b) == IF a < b THEN a ELSE b

\* write, second step: result = _serial->write(buffer, size).  The port
\* takes all of the buffer, part of it or none; with auto-direction the
\* call returns here
write_port ==
    /\ hal_pc = "write"
    /\ \E accepted \in 0..Min(hal_size, MaxBytes - hal_tx_pending) :
          /\ hal_tx_pending' = hal_tx_pending + accepted
          /\ hal_result' = [op |-> "write", value |-> accepted]
    /\ hal_pc' = IF _auto_direction THEN "idle" ELSE "flush"
    /\ hal_log' = Append(hal_log, HalCall("serial_write", hal_size))
    /\ UNCHANGED <<_serial, _enable_pin, _auto_direction, _baud_rate,
                   hal_pin_mode, hal_pin_level, hal_rx_available, hal_size,
                   hal_buffer>>

\* write, third step: _serial->flush() returns once the port has
\* transmitted everything it accepted
write_flush ==
    /\ hal_pc = "flush"
    /\ hal_tx_pending = 0
    /\ hal_pc' = "receive"
    /\ hal_log' = Append(hal_log, HalCall("serial_flush", 0))
    /\ UNCHANGED <<_serial, _enable_pin, _auto_direction, _baud_rate,
                   hal_pin_mode, hal_pin_level, hal_tx_pending,
                   hal_rx_available, hal_size, hal_result, hal_buffer>>

\* write, last step: setReceiveMode() and return result
write_receive ==
    /\ hal_pc = "receive"
    /\ setReceiveMode(_enable_pin, hal_log)
    /\ hal_pc' = "idle"
    /\ UNCHANGED <<_serial, _enable_pin, _auto_direction, _baud_rate,
                   hal_pin_mode, hal_tx_pending, hal_rx_available, hal_size,
                   hal_result, hal_buffer>>

\* The UART finishes transmitting one byte
HALPortTransmit ==
    /\ hal_tx_pending > 0
    /\ hal_tx_pending' = hal_tx_pending - 1
    /\ UNCHANGED <<_serial, _enable_pin, _auto_direction, _baud_rate,
                   hal_pin_mode, hal_pin_level, hal_rx_available, hal_pc,
                   hal_size, hal_result, hal_buffer, hal_log>>

\* The UART, once begun, receives one byte from the bus
HALPortReceive ==
    /\ _serial # nullptr
    /\ hal_rx_available < MaxRx
    /\ hal_rx_available' = hal_rx_available + 1
    /\ UNCHANGED <<_serial, _enable_pin, _auto_direction, _baud_rate,
                   hal_pin_mode, hal_pin_level, hal_tx_pending, hal_pc,
                   hal_size, hal_result, hal_buffer, hal_log>>

\* While the DE/RE pin is an input nothing drives it: its level is whatever
\* the board gives
HALPinFloats ==
    /\ hal_pin_mode = "INPUT"
    /\ hal_pin_level' = ~hal_pin_level
    /\ UNCHANGED <<_serial, _enable_pin, _auto_direction, _baud_rate,
                   hal_pin_mode, hal_tx_pending, hal_rx_available, hal_pc,
                   hal_size, hal_result, hal_buffer, hal_log>>

HALBeginAuto ==
    \E baud_rate \in HalBaudArgs :
        begin(BACNET_MSTP_SERIAL, BACNET_RS485_ENABLE_PIN, baud_rate)
HALBeginCustom ==
    \E enable_pin \in EnablePinArgs, baud_rate \in HalBaudArgs :
        begin(BACNET_MSTP_SERIAL, enable_pin, baud_rate)
HALWrite ==
    \E buffer \in {nullptr, 1}, size \in 0..MaxBytes : write(buffer, size)

\* A call of setTransmitMode() from the sketch
HALSetTransmitMode ==
    /\ hal_pc = "idle"
    /\ setTransmitMode(<<HalCall("setTransmitMode", 0)>>)
    /\ UNCHANGED <<_serial, _enable_pin, _auto_direction, _baud_rate,
                   hal_pin_mode, hal_tx_pending, hal_rx_available, hal_pc,
                   hal_size, hal_result, hal_buffer>>

\* int BACnetRS485::available(): the number of bytes the port holds, or 0
\* when no port is bound
available ==
    /\ hal_pc = "idle"
    /\ hal_result' = [op |-> "available",
                      value |-> IF _serial # nullptr THEN hal_rx_available
                                                     ELSE 0]
    /\ hal_log' = IF _serial # nullptr
                    THEN <<HalCall("available", 0),
                           HalCall("serial_available", 0)>>
                    ELSE <<HalCall("available", 0)>>
    /\ UNCHANGED <<_serial, _enable_pin, _auto_direction, _baud_rate,
                   hal_pin_mode, hal_pin_level, hal_tx_pending,
                   hal_rx_available, hal_pc, hal_size, hal_buffer>>

\* A call of setReceiveMode() from the sketch
HALSetReceiveMode ==
    /\ hal_pc = "idle"
    /\ setReceiveMode(_enable_pin, <<HalCall("setReceiveMode", 0)>>)
    /\ UNCHANGED <<_serial, _enable_pin, _auto_direction, _baud_rate,
                   hal_pin_mode, hal_tx_pending, hal_rx_available, hal_pc,
                   hal_size, hal_result, hal_buffer>>

(***************************************************************************)
(* Functions that only compute: the index and instance maps of bv.c,       *)
(* RS485_Baud_Rate_From_Kilo and BACnetDevice::isObjectTypeAvailable       *)
(***************************************************************************)

\* No such function has been called yet
FunctionsInit ==
    fn_call = [op |-> "none", arg |-> 0, tier |-> 0, ret |-> 0,
               avail |-> FALSE]

\* UINT32_MAX, all bits set, written here as the signed reading of that bit
\* pattern
UINT32_MAX == -1

\* unsigned Binary_Value_Count(void)
Binary_Value_Count == Objects_Max

\* uint32_t Binary_Value_Index_To_Instance(unsigned index)
Binary_Value_Index_To_Instance(index) ==
    IF index < Objects_Max
      THEN Object_List[index + 1].object_id
      ELSE UINT32_MAX

\* The loop of Binary_Value_Instance_To_Index from index on
RECURSIVE Instance_To_Index_Loop(_, _)
Instance_To_Index_Loop(object_instance, index) ==
    IF index < Objects_Max
      THEN IF Object_List[index + 1].object_id = object_instance
             THEN index
             ELSE Instance_To_Index_Loop(object_instance, index + 1)
      ELSE index

\* Binary_Value_Instance_To_Index answering 0 when nothing matches
Binary_Value_Instance_To_Index_ZeroOnMiss(object_instance) ==
    LET index == Instance_To_Index_Loop(object_instance, 0)
    IN  IF index < Objects_Max THEN index ELSE 0

\* unsigned Binary_Value_Instance_To_Index(uint32_t object_instance)
Binary_Value_Instance_To_Index(object_instance) ==
    Instance_To_Index_Loop(object_instance, 0)

\* Indices the enumeration services ask for: those of the table and some
\* past its end
IndexArgs == 0..(Objects_Max + 2)

\* Instances asked for: 0..100, which holds every instance of the table,
\* and the sentinel
InstanceArgs == 0..100 \cup {UINT32_MAX}

\* A call of Binary_Value_Index_To_Instance
BVIndexToInstance ==
    \E index \in IndexArgs :
        fn_call' = [op |-> "Binary_Value_Index_To_Instance", arg |-> index,
                    tier |-> 0,
                    ret |-> Binary_Value_Index_To_Instance(index),
                    avail |-> FALSE]

\* A call of Binary_Value_Instance_To_Index
BVInstanceToIndex ==
    \E object_instance \in InstanceArgs :
        fn_call' = [op |-> "Binary_Value_Instance_To_Index",
                    arg |-> object_instance, tier |-> 0,
                    ret |-> Binary_Value_Instance_To_Index(object_instance),
                    avail |-> FALSE]

\* RS485_Baud_Rate_From_Kilo without the case of 255
RS485_Baud_Rate_From_Kilo_No255(baud_k) ==
    IF baud_k >= 115 THEN 115200
    ELSE IF baud_k >= 76 THEN 76800
    ELSE IF baud_k >= 57 THEN 57600
    ELSE IF baud_k >= 38 THEN 38400
    ELSE IF baud_k >= 19 THEN 19200
    ELSE IF baud_k >= 9 THEN 9600
    ELSE 38400

\* uint32_t RS485_Baud_Rate_From_Kilo(uint8_t baud_k)
RS485_Baud_Rate_From_Kilo(baud_k) ==
    IF baud_k = 255 THEN 38400
    ELSE IF baud_k >= 115 THEN 115200
    ELSE IF baud_k >= 76 THEN 76800
    ELSE IF baud_k >= 57 THEN 57600
    ELSE IF baud_k >= 38 THEN 38400
    ELSE IF baud_k >= 19 THEN 19200
    ELSE IF baud_k >= 9 THEN 9600
    ELSE 38400

\* A call of RS485_Baud_Rate_From_Kilo with any uint8_t
RS485FromKilo ==
    \E baud_k \in 0..255 :
        fn_call' = [op |-> "RS485_Baud_Rate_From_Kilo", arg |-> baud_k,
                    tier |-> 0, ret |-> RS485_Baud_Rate_From_Kilo(baud_k),
                    avail |-> FALSE]

\* RS485_Set_Baud_Rate called with the rate RS485_Baud_Rate_From_Kilo gave
RS485SetBaudFromKilo ==
    /\ fn_call.op = "RS485_Baud_Rate_From_Kilo"
    /\ RS485_Set_Baud_Rate(fn_call.ret)

\* BOARD_TIER of the boards BACnetConfig.h knows
BoardTiers == 1..4

\* uint16_t object_type arguments: the codes below 32
ObjectTypeArgs == 0..31

\* #define OBJECT_ANALOG_VALUE
OBJECT_ANALOG_VALUE == 2

\* The BACNET_OBJECT_* macros of the second tier, as a bool
TierTwoObject(tier) == tier >= 2

\* bool BACnetDevice::isObjectTypeAvailable(uint16_t object_type) on a board
\* of the tier: the values the switch can return.  The label 19 is written
\* twice, under BACNET_OBJECT_BINARY_VALUE and under
\* BACNET_OBJECT_MULTI_STATE_VALUE; either may be the one a build keeps.
isObjectTypeAvailable(tier, object_type) ==
    CASE object_type = 1 -> {TierTwoObject(tier)}
      [] object_type = 2 -> {TierTwoObject(tier)}
      [] object_type = 3 -> {TRUE}
      [] object_type = 4 -> {TierTwoObject(tier)}
      [] object_type = 5 -> {TierTwoObject(tier)}
      [] object_type = 19 -> {TRUE, TierTwoObject(tier)}
      [] object_type \in {13, 14} -> {TierTwoObject(tier)}
      [] OTHER -> {FALSE}

\* A call of isObjectTypeAvailable on a board of some tier
DevIsObjectTypeAvailable ==
    \E tier \in BoardTiers, object_type \in ObjectTypeArgs :
        \E result \in isObjectTypeAvailable(tier, object_type) :
            fn_call' = [op |-> "isObjectTypeAvailable", arg |-> object_type,
                        tier |-> tier, ret |-> 0, avail |-> result]

(***************************************************************************)
(* BACnetDevice: the device name, the location and the description         *)
(***************************************************************************)

\* The terminator of a C string
NUL == "NUL"

\* A byte nothing has written yet
INDETERMINATE == "?"

\* sizeof(_device_name), sizeof(_location), sizeof(_description)
sizeof_device_name == 32
sizeof_location == 64
sizeof_description == 64

\* The offsets of the three arrays, consecutive members of the class
offsetof_device_name == 0
offsetof_location == offsetof_device_name + sizeof_device_name
offsetof_description == offsetof_location + sizeof_location
ObjectBytes == offsetof_description + sizeof_description

\* The longest string a sketch passes, and the bytes after the arrays that
\* a copy of such a string could reach
MaxNameLen == 66
GuardBytes == MaxNameLen + 1

Alphabet == <<"a", "b", "c", "d", "e", "f", "g", "h">>

\* A string of n characters, none of them the terminator
CString(n) == [i \in 1..n |-> Alphabet[((i + n) % Len(Alphabet)) + 1]]

NameLens == {0, 1, sizeof_device_name - 1, sizeof_device_name,
             sizeof_location - 1, sizeof_location, MaxNameLen}

\* const char* arguments: the null pointer or a string
NameArgs ==
    {[null |-> TRUE, chars |-> <<>>]}
        \cup {[null |-> FALSE, chars |-> CString(n)] : n \in NameLens}

\* strncpy(dest, src, n): n bytes are written, the characters of src and
\* then terminators
strncpy(mem, dest, src, n) ==
    [i \in 1..Len(mem) |->
        IF i > dest /\ i <= dest + n
        THEN IF i - dest <= Len(src) THEN src[i - dest] ELSE NUL
        ELSE mem[i]]

\* snprintf(dest, size, str) of a format without conversions
snprintf(mem, dest, size, str) ==
    LET n == Min(Len(str), size - 1)
    IN  [i \in 1..Len(mem) |->
            IF i > dest /\ i <= dest + n THEN str[i - dest]
            ELSE IF i = dest + n + 1 THEN NUL
            ELSE mem[i]]

DefaultDeviceName ==
    <<"A", "r", "d", "u", "i", "n", "o", " ", "B", "A", "C", "n", "e", "t",
      " ", "D", "e", "v", "i", "c", "e">>
DefaultLocation == <<"A", "r", "d", "u", "i", "n", "o">>
BOARD_NAME ==
    <<"A", "r", "d", "u", "i", "n", "o", " ", "U", "n", "o", "/", "N", "a",
      "n", "o">>

\* The constructor sets the default device properties
NamesInit ==
    /\ name_mem =
          snprintf(
              snprintf(
                  snprintf([i \in 1..(ObjectBytes + GuardBytes) |->
                               INDETERMINATE],
                           offsetof_device_name, sizeof_device_name,
                           DefaultDeviceName),
                  offsetof_location, sizeof_location, DefaultLocation),
              offsetof_description, sizeof_description, BOARD_NAME)
    /\ name_call = [op |-> "none", arg |-> [null |-> TRUE, chars |-> <<>>],
                    before |-> <<>>]

\* The body the three setters share: the copy stops at the terminator of
\* the string, without a bound
setString_strcpy(mem, dest, size, name) ==
    IF name.null THEN mem
    ELSE strncpy(mem, dest, name.chars, Len(name.chars) + 1)

\* The body the three setters share
setString(mem, dest, size, name) ==
    IF name.null THEN mem
    ELSE [strncpy(mem, dest, name.chars, size - 1) EXCEPT ![dest + size] = NUL]

setDeviceName ==
    \E name \in NameArgs :
        /\ name_mem' = setString(name_mem, offsetof_device_name,
                                 sizeof_device_name, name)
        /\ name_call' = [op |-> "setDeviceName", arg |-> name,
                         before |-> name_mem]

setLocation ==
    \E location \in NameArgs :
        /\ name_mem' = setString(name_mem, offsetof_location,
                                 sizeof_location, location)
        /\ name_call' = [op |-> "setLocation", arg |-> location,
                         before |-> name_mem]

setDescription ==
    \E description \in NameArgs :
        /\ name_mem' = setString(name_mem, offsetof_description,
                                 sizeof_description, description)
        /\ name_call' = [op |-> "setDescription", arg |-> description,
                         before |-> name_mem]

(***************************************************************************)
(* Specifications                                                          *)
(***************************************************************************)

Init ==
    /\ DeviceInit /\ AVInit /\ BVInit /\ BVReadInit /\ RS485Init /\ HALInit
    /\ TaskInit /\ BinaryValueInit /\ FunctionsInit /\ NamesInit

NextDevice ==
    \/ DevAdd /\ UNCHANGED other_than_dev
    \/ DevRemove /\ UNCHANGED other_than_dev

\* The sketch of a device: it registers and removes objects between the
\* calls of begin() and task()
NextTask ==
    \/ task_pc = "idle" /\ DevAdd /\ UNCHANGED other_than_dev
    \/ task_pc = "idle" /\ DevRemove /\ UNCHANGED other_than_dev
    \/ DevBegin /\ UNCHANGED other_than_task
    \/ task_enter /\ UNCHANGED other_than_task
    \/ task_receive /\ UNCHANGED other_than_task
    \/ task_maintenance /\ UNCHANGED other_than_task
    \/ task_tsm /\ UNCHANGED other_than_task
    \/ task_update /\ UNCHANGED other_than_task
    \/ task_return /\ UNCHANGED other_than_task

\* One Binary Value object of the library and its pin
NextBinaryValue ==
    \/ BinConstructOnPin /\ UNCHANGED other_than_bin
    \/ BinSetValue /\ UNCHANGED other_than_bin
    \/ BinSetValueBool /\ UNCHANGED other_than_bin
    \/ BinSetPin /\ UNCHANGED other_than_bin
    \/ BinaryValue_readPin /\ UNCHANGED other_than_bin
    \/ BinaryValue_writePin /\ UNCHANGED other_than_bin
    \/ BinaryValue_update /\ UNCHANGED other_than_bin
    \/ BinaryValue_InputChange /\ UNCHANGED other_than_bin

\* Change detection: the sketch sets values and switches COV on and off on
\* an Analog Value while the Binary Value is as constructed, or on a Binary
\* Value while the Analog Value is as constructed, and the clock runs
NextCOV ==
    \/ bin_call.op = "BACnetBinaryValue" /\ AVSetValue
          /\ UNCHANGED other_than_av
    \/ bin_call.op = "BACnetBinaryValue" /\ AVEnableCOV
          /\ UNCHANGED other_than_av
    \/ bin_call.op = "BACnetBinaryValue" /\ disableCOV
          /\ UNCHANGED other_than_av
    \/ av_call.op = "BACnetAnalogValue" /\ BinSetValue
          /\ UNCHANGED other_than_bin
    \/ av_call.op = "BACnetAnalogValue" /\ BinSetValueBool
          /\ UNCHANGED other_than_bin
    \/ av_call.op = "BACnetAnalogValue" /\ BinaryValue_enableCOV
          /\ UNCHANGED other_than_bin
    \/ av_call.op = "BACnetAnalogValue" /\ BinaryValue_disableCOV
          /\ UNCHANGED other_than_bin
    \/ ClockTick /\ UNCHANGED other_than_av

\* The index and instance maps of bv.c
NextTable ==
    \/ BVIndexToInstance /\ UNCHANGED other_than_fn
    \/ BVInstanceToIndex /\ UNCHANGED other_than_fn

\* The datalink turns a rate in kilobaud into a rate and sets it
NextKilo ==
    \/ RS485_Initialize /\ UNCHANGED other_than_rs
    \/ RS485FromKilo /\ UNCHANGED other_than_fn
    \/ RS485SetBaudFromKilo /\ UNCHANGED other_than_rs

\* isObjectTypeAvailable on the boards of every tier
NextTypes ==
    \/ DevIsObjectTypeAvailable /\ UNCHANGED other_than_fn

\* A sketch names its device
NextNames ==
    \/ setDeviceName /\ UNCHANGED other_than_name
    \/ setLocation /\ UNCHANGED other_than_name
    \/ setDescription /\ UNCHANGED other_than_name

NextAV ==
    \/ AVSetValue /\ UNCHANGED other_than_av
    \/ AVSetMinValue /\ UNCHANGED other_than_av
    \/ AVSetMaxValue /\ UNCHANGED other_than_av
    \/ AVSetPin /\ UNCHANGED other_than_av
    \/ AVReadPin /\ UNCHANGED other_than_av
    \/ AVUpdate /\ UNCHANGED other_than_av

NextBV ==
    \/ BVWrite /\ UNCHANGED other_than_bv
    \/ BVInputChange /\ UNCHANGED other_than_bv

NextBVRead ==
    \/ BVRead /\ UNCHANGED other_than_rp
    \/ BVWritePresentValue /\ UNCHANGED other_than_bv
    \/ BVInputChange /\ UNCHANGED other_than_bv

NextRS485 ==
    \/ RS485_Initialize /\ UNCHANGED other_than_rs
    \/ RS485SetBaud /\ UNCHANGED other_than_rs
    \/ RS485_Turnaround_Delay /\ UNCHANGED other_than_rs
    \/ RS485_DataAvailable /\ UNCHANGED other_than_rs
    \/ RS485SendData /\ UNCHANGED other_than_rs
    \/ RS485_Send_Write /\ UNCHANGED other_than_rs
    \/ RS485_Send_Flush /\ UNCHANGED other_than_rs
    \/ RS485_Send_Disable /\ UNCHANGED other_than_rs
    \/ RS485_Send_Reset /\ UNCHANGED other_than_rs
    \/ RS485_PORT_Transmit /\ UNCHANGED other_than_rs
    \/ RS485_PORT_Receive /\ UNCHANGED other_than_rs
    \/ RS485_PinFloats /\ UNCHANGED other_than_rs
    \/ RS485_Tick /\ UNCHANGED other_than_rs

NextHALSend ==
    \/ HALBeginAuto /\ UNCHANGED other_than_hal
    \/ HALBeginCustom /\ UNCHANGED other_than_hal
    \/ read /\ UNCHANGED other_than_hal
    \/ HALWrite /\ UNCHANGED other_than_hal
    \/ write_port /\ UNCHANGED other_than_hal
    \/ write_flush /\ UNCHANGED other_than_hal
    \/ write_receive /\ UNCHANGED other_than_hal
    \/ HALPortTransmit /\ UNCHANGED other_than_hal
    \/ HALPortReceive /\ UNCHANGED other_than_hal
    \/ HALPinFloats /\ UNCHANGED other_than_hal

NextHAL ==
    \/ NextHALSend
    \/ HALSetTransmitMode /\ UNCHANGED other_than_hal
    \/ HALSetReceiveMode /\ UNCHANGED other_than_hal
    \/ available /\ UNCHANGED other_than_hal

\* A sketch drives its transceiver through one of the two implementations:
\* rs485.cpp while no function of the class has been called, the class
\* while no function of rs485.cpp has been called.  It initializes, sends
\* and receives, and leaves the direction of the transceiver to the send
\* calls.
NextTransceiver ==
    \/ _serial = nullptr /\ hal_log = <<>> /\ NextRS485
    \/ rs_pin_mode = "INPUT" /\ rs_call.op = "none" /\ NextHALSend

Next ==
    \/ NextDevice \/ NextAV \/ NextBV \/ NextBVRead \/ NextRS485 \/ NextHAL
    \/ NextTask \/ NextBinaryValue \/ NextCOV
    \/ NextTable \/ NextKilo \/ NextTypes \/ NextNames

\* The registry alone
SpecDevice == Init /\ [][NextDevice]_vars

\* The registry with begin() and task()
SpecTask == Init /\ [][NextTask]_vars

\* One Binary Value object of the library, COV left disabled
SpecBinaryValue == Init /\ [][NextBinaryValue]_vars

\* Change detection of an Analog Value or a Binary Value, with the clock
SpecCOV == Init /\ [][NextCOV]_vars

\* The index and instance maps of bv.c
SpecTable == Init /\ [][NextTable]_vars

\* RS485_Baud_Rate_From_Kilo and RS485_Set_Baud_Rate
SpecKilo == Init /\ [][NextKilo]_vars

\* isObjectTypeAvailable
SpecTypes == Init /\ [][NextTypes]_vars

\* The name setters of the device
SpecNames == Init /\ [][NextNames]_vars

\* One Analog Value object alone
SpecAV == Init /\ [][NextAV]_vars

\* The Binary Value WriteProperty handler alone
SpecBV == Init /\ [][NextBV]_vars

\* The Binary Value ReadProperty handler, with the writes and input changes
\* that move the pins it samples
SpecBVRead == Init /\ [][NextBVRead]_vars

\* The rs485.cpp transceiver with its serial port and clock
SpecRS485 == Init /\ [][NextRS485]_vars

\* The BACnetRS485 class with its serial port
SpecHAL == Init /\ [][NextHAL]_vars

\* Either transceiver implementation
SpecTransceiver == Init /\ [][NextTransceiver]_vars

Spec == Init /\ [][Next]_vars

(***************************************************************************)
(* Properties of the registry (SpecDevice)                                 *)
(***************************************************************************)

\* The contained objects in index order, as a sequence
Contents == [k \in 1.._object_count |-> _objects[k - 1]]

\* The indices a linear scan over the contained objects matches for instance
\* number id; the scan finds nothing exactly when there is none
IndicesOfInstance(id) ==
    {i \in 0..(_object_count - 1) : getInstance(_objects[i]) = id}

\* C1: no two entries of the object table share an instance number (so no
\* object is contained twice).  addObject never compares the new object with
\* the table, so the code does not keep this.
C1_UniqueInstances ==
    \A i, j \in 0..(_object_count - 1) :
        i # j => getInstance(_objects[i]) # getInstance(_objects[j])

\* C2: addObject(o) returns false and changes neither table nor count when o is
\* null or the count equals MAX_BACNET_OBJECTS; otherwise it returns true,
\* stores o at index (old count), adds one to the count and leaves every
\* other slot as it was.
C2_AddObject ==
    [][dev_call'.op = "addObject" =>
        LET o == dev_call'.object IN
        IF o = nullptr \/ _object_count = MAX_BACNET_OBJECTS
          THEN /\ dev_ret' = FALSE
               /\ _objects' = _objects
               /\ _object_count' = _object_count
          ELSE /\ dev_ret' = TRUE
               /\ _objects'[_object_count] = o
               /\ _object_count' = _object_count + 1
               /\ \A i \in Slots : i # _object_count => _objects'[i] = _objects[i]
      ]_vars

\* C2 witness: an add was refused on a full table, which is unchanged
C2_Witness ==
    /\ dev_call.op = "addObject"
    /\ dev_call.object # nullptr
    /\ dev_call.count_before = MAX_BACNET_OBJECTS
    /\ dev_ret = FALSE
    /\ _object_count = MAX_BACNET_OBJECTS

\* C3: 0 <= count <= MAX_BACNET_OBJECTS, the slots below the count hold
\* objects and the slots from the count on are null.
C3_Contiguous ==
    /\ _object_count \in 0..MAX_BACNET_OBJECTS
    /\ \A i \in Slots :
          IF i < _object_count THEN _objects[i] # nullptr
                               ELSE _objects[i] = nullptr

\* C3 witness: an object was removed from the middle of a full table
C3_Witness ==
    /\ dev_call.op = "removeObject"
    /\ dev_call.count_before = MAX_BACNET_OBJECTS
    /\ _object_count = MAX_BACNET_OBJECTS - 1
    /\ _objects[0] # nullptr
    /\ _objects[0] # dev_call.object

\* C4: removeObject(o) of a contained o takes one occurrence of o out of the
\* sequence of contained objects and keeps the others in their order, one less
\* in count; removeObject of null or of an object that is not contained
\* changes neither table nor count.
C4_RemoveObject ==
    [][dev_call'.op = "removeObject" =>
        LET o == dev_call'.object
            before == Contents
            after == Contents'
        IN  IF o # nullptr /\ \E k \in 1..Len(before) : before[k] = o
              THEN /\ _object_count' = _object_count - 1
                   /\ \E k \in 1..Len(before) :
                         /\ before[k] = o
                         /\ after = SubSeq(before, 1, k - 1)
                                      \o SubSeq(before, k + 1, Len(before))
              ELSE /\ _objects' = _objects
                   /\ _object_count' = _object_count
      ]_vars

\* C4 witness: the first of three contained objects was removed and the other
\* two moved down in their order
C4_Witness ==
    /\ dev_call.op = "removeObject"
    /\ dev_call.count_before = MAX_BACNET_OBJECTS
    /\ _object_count = MAX_BACNET_OBJECTS - 1
    /\ _objects[0] = 2
    /\ _objects[1] = 3
    /\ dev_call.object = 1

\* C5: after removeObject(o) a linear-scan lookup by o's instance number finds
\* no object.
C5_LookupAfterRemove ==
    (dev_call.op = "removeObject" /\ dev_call.object # nullptr)
        => IndicesOfInstance(getInstance(dev_call.object)) = {}

\* C6: an add to a full table fails; an add that follows the removal of an
\* object from a full table succeeds and stores the object in the last slot.
C6_SlotReuse ==
    (dev_call.op = "addObject" /\ dev_call.object # nullptr) =>
        /\ dev_call.count_before = MAX_BACNET_OBJECTS =>
              /\ dev_ret = FALSE
              /\ _object_count = MAX_BACNET_OBJECTS
        /\ dev_call.after_full_remove =>
              /\ dev_ret = TRUE
              /\ _object_count = MAX_BACNET_OBJECTS
              /\ _objects[MAX_BACNET_OBJECTS - 1] = dev_call.object

\* C6 witness: the add after a removal from a full table put an object whose
\* instance number no other contained object has into the last slot, the one
\* index a scan by that instance number matches
C6_Witness ==
    /\ dev_call.op = "addObject"
    /\ dev_call.after_full_remove
    /\ dev_ret = TRUE
    /\ _objects[MAX_BACNET_OBJECTS - 1] = dev_call.object
    /\ IndicesOfInstance(getInstance(dev_call.object)) = {MAX_BACNET_OBJECTS - 1}

(***************************************************************************)
(* Properties of the Analog Value object (SpecAV)                          *)
(***************************************************************************)

\* C7: min_value <= getValue() <= max_value after any sequence of setValue,
\* setMinValue, setMaxValue, readPin and update calls.  setMinValue and
\* setMaxValue accept a minimum above the maximum, and the value they leave
\* stays out of range when the range is made valid again.
C7_ValueInRange ==
    /\ av_min_value <= av_present_value
    /\ av_present_value <= av_max_value

\* C8: with min_value <= max_value, setValue(v) stores v when v is in
\* [min_value, max_value], min_value when v is below and max_value when v is
\* above, and changes neither limit.
C8_SetValueClamps ==
    [][(av_call'.op = "setValue" /\ av_min_value <= av_max_value) =>
        LET v == av_call'.arg IN
        /\ av_present_value' =
              IF v < av_min_value THEN av_min_value
              ELSE IF v > av_max_value THEN av_max_value
              ELSE v
        /\ av_min_value' = av_min_value
        /\ av_max_value' = av_max_value
      ]_vars

\* C8 witness: min 0.0, max 100.0, setValue(150.0) left getValue() == 100.0
C8_Witness ==
    /\ av_call = [op |-> "setValue", arg |-> 150 * SCALE]
    /\ av_min_value = 0
    /\ av_max_value = 100 * SCALE
    /\ av_present_value = 100 * SCALE

(***************************************************************************)
(* Properties of Binary_Value_Write_Property (SpecBV)                      *)
(***************************************************************************)

\* A request has been handled: wp_data is that request with its error fields
WPCalled == wp_data.object_property # "none"

\* The request addressed an object of Object_List
WPInTable == \E k \in 1..Objects_Max : Object_List[k].object_id = wp_data.object_instance

\* The request addressed an output object of Object_List
WPIsOutput ==
    \E k \in 1..Objects_Max :
        /\ Object_List[k].object_id = wp_data.object_instance
        /\ Object_List[k].is_output

\* The payload of the request decoded
WPDecoded == wp_data.application_data.kind # "malformed"

\* The payload of the request is an enumerated ACTIVE or INACTIVE
WPBinaryPayload ==
    /\ wp_data.application_data.kind = "enumerated"
    /\ wp_data.application_data.value \in {BINARY_ACTIVE, BINARY_INACTIVE}

\* C9: a write whose array index is not BACNET_ARRAY_ALL and that passes the
\* instance, decode and tag/value checks is rejected with
\* PROPERTY_IS_NOT_AN_ARRAY, present-value included.  The present-value case
\* of the handler never looks at the array index.
C9_ArrayIndexBeforeAccess ==
    ( /\ WPCalled
      /\ WPInTable
      /\ WPDecoded
      /\ wp_data.object_property = "PROP_PRESENT_VALUE" => WPBinaryPayload
      /\ wp_data.array_index # BACNET_ARRAY_ALL )
    => /\ wp_status = FALSE
       /\ wp_data.error_code = "ERROR_CODE_PROPERTY_IS_NOT_AN_ARRAY"

\* C10: the write succeeds exactly when the instance is in the table, the
\* payload decodes, the property is present-value, the payload is an
\* enumerated ACTIVE or INACTIVE and the object is an output; on success the
\* object's pin is driven to the written value, on failure an error class and
\* an error code are set and no pin is written.
C10_WriteSuccess ==
    WPCalled =>
        LET ok == /\ WPInTable
                  /\ WPDecoded
                  /\ wp_data.object_property = "PROP_PRESENT_VALUE"
                  /\ WPBinaryPayload
                  /\ WPIsOutput
        IN  /\ wp_status = ok
            /\ ok => \E k \in 1..Objects_Max :
                        /\ Object_List[k].object_id = wp_data.object_instance
                        /\ pin_writes =
                             <<[pin |-> Object_List[k].pin,
                                active |-> (wp_data.application_data.value
                                              = BINARY_ACTIVE)]>>
                        /\ pin_level[Object_List[k].pin]
                             = (wp_data.application_data.value = BINARY_ACTIVE)
            /\ ~ok => /\ wp_data.error_class # "unset"
                      /\ wp_data.error_code # "unset"
                      /\ pin_writes = <<>>

\* C10 witness: ACTIVE was written to output object 5 and its pin D8 is high
C10_Witness ==
    /\ WPCalled
    /\ wp_status = TRUE
    /\ wp_data.object_instance = 5
    /\ wp_data.application_data.value = BINARY_ACTIVE
    /\ pin_level[8] = TRUE

\* The tag the decoder reports for the payload of the request
WPTag == bacapp_decode_application_data(wp_data.application_data).tag

\* The request addressed an input object of Object_List
WPIsInput == WPInTable /\ ~WPIsOutput

\* The request failed with the given error class and code, and wrote no pin
WPFailed(class, code) ==
    /\ wp_status = FALSE
    /\ wp_data.error_class = class
    /\ wp_data.error_code = code
    /\ pin_writes = <<>>

\* C11: a present-value write (valid instance, decodable payload) whose tag is
\* not enumerated fails with INVALID_DATA_TYPE, and one whose enumerated value
\* is neither ACTIVE nor INACTIVE fails with VALUE_OUT_OF_RANGE, for input and
\* output objects alike.
C11_TagValueErrors ==
    (WPCalled /\ WPInTable /\ WPDecoded
       /\ wp_data.object_property = "PROP_PRESENT_VALUE") =>
        /\ WPTag # "BACNET_APPLICATION_TAG_ENUMERATED" =>
              WPFailed("ERROR_CLASS_PROPERTY", "ERROR_CODE_INVALID_DATA_TYPE")
        /\ (WPTag = "BACNET_APPLICATION_TAG_ENUMERATED" /\ ~WPBinaryPayload) =>
              WPFailed("ERROR_CLASS_PROPERTY", "ERROR_CODE_VALUE_OUT_OF_RANGE")

\* C11 witness: a REAL written to the present-value of input object 0 was
\* refused with INVALID_DATA_TYPE
C11_Witness ==
    /\ WPCalled
    /\ wp_data.object_instance = 0
    /\ wp_data.object_property = "PROP_PRESENT_VALUE"
    /\ WPTag = "BACNET_APPLICATION_TAG_REAL"
    /\ wp_data.error_code = "ERROR_CODE_INVALID_DATA_TYPE"

\* C12: a present-value write to an input object fails for every payload and
\* writes no pin; with an enumerated ACTIVE or INACTIVE payload the error is
\* WRITE_ACCESS_DENIED.
C12_InputWriteDenied ==
    (WPCalled /\ WPIsInput /\ wp_data.object_property = "PROP_PRESENT_VALUE") =>
        /\ wp_status = FALSE
        /\ pin_writes = <<>>
        /\ WPBinaryPayload =>
              WPFailed("ERROR_CLASS_PROPERTY", "ERROR_CODE_WRITE_ACCESS_DENIED")

\* C12 witness: INACTIVE written to input object 0 while its pin D3 read high
\* was refused with WRITE_ACCESS_DENIED, and the pin still reads high
C12_Witness ==
    /\ WPCalled
    /\ wp_data.object_instance = 0
    /\ wp_data.object_property = "PROP_PRESENT_VALUE"
    /\ wp_data.application_data = [kind |-> "enumerated", value |-> BINARY_INACTIVE]
    /\ wp_data.error_code = "ERROR_CODE_WRITE_ACCESS_DENIED"
    /\ pin_level[3] = TRUE

\* C13: a write with the whole-value array index (valid instance, decodable
\* payload) to object-identifier, object-name, object-type, status-flags,
\* event-state or out-of-service fails with WRITE_ACCESS_DENIED, whatever the
\* object and the payload.
C13_ReadOnlyDenied ==
    (WPCalled /\ WPInTable /\ WPDecoded
       /\ wp_data.array_index = BACNET_ARRAY_ALL
       /\ wp_data.object_property \in
            {"PROP_OBJECT_IDENTIFIER", "PROP_OBJECT_NAME", "PROP_OBJECT_TYPE",
             "PROP_STATUS_FLAGS", "PROP_EVENT_STATE", "PROP_OUT_OF_SERVICE"}) =>
        WPFailed("ERROR_CLASS_PROPERTY", "ERROR_CODE_WRITE_ACCESS_DENIED")

\* C13 witness: ACTIVE written to out-of-service of output object 5 was refused
\* with WRITE_ACCESS_DENIED
C13_Witness ==
    /\ WPCalled
    /\ wp_data.object_instance = 5
    /\ wp_data.object_property = "PROP_OUT_OF_SERVICE"
    /\ wp_data.array_index = BACNET_ARRAY_ALL
    /\ wp_data.application_data = [kind |-> "enumerated", value |-> BINARY_ACTIVE]
    /\ wp_data.error_code = "ERROR_CODE_WRITE_ACCESS_DENIED"

\* C15: a write to an instance that is not in the table fails with
\* UNKNOWN_OBJECT (class OBJECT) whatever the rest of the request; a write to
\* a valid instance whose payload does not decode fails with
\* VALUE_OUT_OF_RANGE for every property and array index; neither writes a pin.
C15_InstanceThenDecode ==
    WPCalled =>
        /\ ~WPInTable =>
              WPFailed("ERROR_CLASS_OBJECT", "ERROR_CODE_UNKNOWN_OBJECT")
        /\ (WPInTable /\ ~WPDecoded) =>
              WPFailed("ERROR_CLASS_PROPERTY", "ERROR_CODE_VALUE_OUT_OF_RANGE")

\* C15 witness: undecodable bytes written to instance 50, which is not in the
\* table, were refused with UNKNOWN_OBJECT
C15_Witness ==
    /\ WPCalled
    /\ wp_data.object_instance = 50
    /\ ~WPDecoded
    /\ wp_data.error_class = "ERROR_CLASS_OBJECT"
    /\ wp_data.error_code = "ERROR_CODE_UNKNOWN_OBJECT"

(***************************************************************************)
(* Properties of the ReadProperty handler (SpecBVRead)                     *)
(***************************************************************************)

\* A read request has been handled
RPCalled == rp_data.object_property # "none"

\* The seven properties the read handler encodes
RPSupported ==
    rp_data.object_property \in
        {"PROP_OBJECT_IDENTIFIER", "PROP_OBJECT_NAME", "PROP_OBJECT_TYPE",
         "PROP_PRESENT_VALUE", "PROP_STATUS_FLAGS", "PROP_EVENT_STATE",
         "PROP_OUT_OF_SERVICE"}

\* The pin of the object the read request addressed, which is in the table
RPPin == Object_List[Object_List_Element(rp_data.object_instance)].pin

\* C14 as stated: a write (valid instance, decodable payload) of a property
\* outside the supported set signals UNKNOWN_PROPERTY whatever the array
\* index.  The default case answers PROPERTY_IS_NOT_AN_ARRAY when the request
\* carries an array index.
C14_UnknownAnyIndex ==
    (WPCalled /\ WPInTable /\ WPDecoded
       /\ wp_data.object_property \notin ({"PROP_PRESENT_VALUE"} \cup ReadOnlyProperties)) =>
        WPFailed("ERROR_CLASS_PROPERTY", "ERROR_CODE_UNKNOWN_PROPERTY")

\* C14 amended: such a write signals UNKNOWN_PROPERTY with the whole-value
\* array index and PROPERTY_IS_NOT_AN_ARRAY with any other index, whereas
\* ReadProperty of the same property id and index signals UNKNOWN_PROPERTY
\* in both cases.
C14_UnknownByIndex ==
    (WPCalled /\ WPInTable /\ WPDecoded
       /\ wp_data.object_property \notin ({"PROP_PRESENT_VALUE"} \cup ReadOnlyProperties)) =>
        /\ wp_data.array_index = BACNET_ARRAY_ALL =>
              WPFailed("ERROR_CLASS_PROPERTY", "ERROR_CODE_UNKNOWN_PROPERTY")
        /\ wp_data.array_index # BACNET_ARRAY_ALL =>
              WPFailed("ERROR_CLASS_PROPERTY", "ERROR_CODE_PROPERTY_IS_NOT_AN_ARRAY")
        /\ LET rdout == ReadOutcome([object_instance |-> wp_data.object_instance,
                                     object_property |-> wp_data.object_property,
                                     array_index |-> wp_data.array_index,
                                     error_class |-> "unset",
                                     error_code |-> "unset"], pin_level) IN
           /\ rdout.apdu_len = BACNET_STATUS_ERROR
           /\ rdout.error_class = "ERROR_CLASS_PROPERTY"
           /\ rdout.error_code = "ERROR_CODE_UNKNOWN_PROPERTY"

\* C14 witness: a write of description with array index 1 to output object 5
\* was answered with PROPERTY_IS_NOT_AN_ARRAY
C14_Witness ==
    /\ WPCalled
    /\ wp_data.object_instance = 5
    /\ wp_data.object_property = "PROP_DESCRIPTION"
    /\ wp_data.array_index = 1
    /\ WPDecoded
    /\ wp_data.error_code = "ERROR_CODE_PROPERTY_IS_NOT_AN_ARRAY"

\* C16: a read of one of the seven supported properties with the whole-value
\* array index returns an encoded value and sets no error; status-flags has
\* all four flags false, event-state is normal, out-of-service is false, and
\* the present-value of an object of the table is ACTIVE exactly when its pin
\* read high during the call.
C16_ReadSupported ==
    (RPCalled /\ RPSupported /\ rp_data.array_index = BACNET_ARRAY_ALL) =>
        /\ rp_len > 0
        /\ rp_apdu.tag # "none"
        /\ rp_data.error_class = "unset"
        /\ rp_data.error_code = "unset"
        /\ rp_data.object_property = "PROP_STATUS_FLAGS" =>
              /\ rp_apdu.tag = "BIT_STRING"
              /\ \A f \in StatusFlags : rp_apdu.value[f] = FALSE
        /\ rp_data.object_property = "PROP_EVENT_STATE" =>
              rp_apdu = [tag |-> "ENUMERATED", value |-> EVENT_STATE_NORMAL]
        /\ rp_data.object_property = "PROP_OUT_OF_SERVICE" =>
              rp_apdu = [tag |-> "BOOLEAN", value |-> FALSE]
        /\ (rp_data.object_property = "PROP_PRESENT_VALUE"
              /\ Binary_Value_Valid_Instance(rp_data.object_instance)) =>
              /\ rp_apdu.tag = "ENUMERATED"
              /\ rp_apdu.value \in {BINARY_ACTIVE, BINARY_INACTIVE}
              /\ (rp_apdu.value = BINARY_ACTIVE) <=> rp_level[RPPin]

\* C16 witness: the present-value of output object 5 was read as ACTIVE while
\* its pin D8 was high
C16_Witness ==
    /\ RPCalled
    /\ rp_data.object_instance = 5
    /\ rp_data.object_property = "PROP_PRESENT_VALUE"
    /\ rp_data.array_index = BACNET_ARRAY_ALL
    /\ rp_len > 0
    /\ rp_apdu = [tag |-> "ENUMERATED", value |-> BINARY_ACTIVE]
    /\ rp_level[8]

\* C17: a read of a property outside the seven supported ones returns an
\* error with class PROPERTY and code UNKNOWN_PROPERTY, for every array index.
C17_ReadUnknown ==
    (RPCalled /\ ~RPSupported) =>
        /\ rp_len = BACNET_STATUS_ERROR
        /\ rp_data.error_class = "ERROR_CLASS_PROPERTY"
        /\ rp_data.error_code = "ERROR_CODE_UNKNOWN_PROPERTY"

\* C17 witness: description was read with array index 1 and answered with
\* UNKNOWN_PROPERTY
C17_Witness ==
    /\ RPCalled
    /\ rp_data.object_property = "PROP_DESCRIPTION"
    /\ rp_data.array_index = 1
    /\ rp_len = BACNET_STATUS_ERROR
    /\ rp_data.error_code = "ERROR_CODE_UNKNOWN_PROPERTY"

\* C18: a read of one of the seven supported properties with an array index
\* other than the whole-value index returns the error
\* PROPERTY_IS_NOT_AN_ARRAY (class PROPERTY) in place of the length of an
\* encoded value.
C18_ReadNotArray ==
    (RPCalled /\ RPSupported /\ rp_data.array_index # BACNET_ARRAY_ALL) =>
        /\ rp_len = BACNET_STATUS_ERROR
        /\ rp_data.error_class = "ERROR_CLASS_PROPERTY"
        /\ rp_data.error_code = "ERROR_CODE_PROPERTY_IS_NOT_AN_ARRAY"

\* C18 witness: the present-value of input object 0 was read with array
\* index 1 while its pin was high, and answered with PROPERTY_IS_NOT_AN_ARRAY
C18_Witness ==
    /\ RPCalled
    /\ rp_data.object_instance = 0
    /\ rp_data.object_property = "PROP_PRESENT_VALUE"
    /\ rp_data.array_index = 1
    /\ rp_level[3]
    /\ rp_len = BACNET_STATUS_ERROR
    /\ rp_data.error_code = "ERROR_CODE_PROPERTY_IS_NOT_AN_ARRAY"

(***************************************************************************)
(* Properties of the transceivers (SpecTransceiver, SpecRS485)             *)
(***************************************************************************)

\* The statements of RS485_Send_Data in program order
SendSteps == <<"enable", "write", "flush", "disable", "reset">>

\* s is an initial part of t
IsPrefix(s, t) == Len(s) <= Len(t) /\ s = SubSeq(t, 1, Len(s))

\* C19: with a direction pin present, after initialization and any sequence
\* of send, receive and baud-change calls the pin is LOW whenever no send is
\* executing, so every send returns with the pin LOW, however many bytes the
\* serial port accepted.  Stated for RS485_Send_Data (rs485.cpp) and for
\* BACnetRS485::write.
C19_PinLowOutsideSend ==
    /\ (rs_pin_mode = "OUTPUT" /\ rs_pc = "idle") => rs_pin_level = FALSE
    /\ (_serial # nullptr /\ _enable_pin >= 0 /\ hal_pc = "idle") =>
          hal_pin_level = FALSE

\* C19 witness: BACnetRS485::write of two bytes on a transceiver with DE/RE
\* pin 2 has returned 1, the port having accepted one byte, and the pin is LOW
C19_Witness ==
    /\ _serial # nullptr
    /\ _enable_pin = BACNET_RS485_ENABLE_PIN
    /\ hal_pin_mode = "OUTPUT"
    /\ hal_pc = "idle"
    /\ hal_size = 2
    /\ hal_result = [op |-> "write", value |-> 1]
    /\ hal_pin_level = FALSE

\* C20: the statements of one RS485_Send_Data run in the order enable, write,
\* flush, disable, reset and a send that has returned has run all five; the
\* enable pin is HIGH as long as the port holds accepted bytes it has not
\* transmitted; and the step that returns from the send leaves the silence
\* timer at zero elapsed time.
C20_SendOrder ==
    /\ [](/\ IsPrefix(rs_log, SendSteps)
          /\ rs_pc = "idle" => rs_log \in {<<>>, SendSteps}
          /\ rs_pc = "write" => rs_log = SubSeq(SendSteps, 1, 1)
          /\ rs_pc = "flush" => rs_log = SubSeq(SendSteps, 1, 2)
          /\ rs_pc = "disable" => rs_log = SubSeq(SendSteps, 1, 3)
          /\ rs_pc = "reset" => rs_log = SubSeq(SendSteps, 1, 4)
          /\ rs_tx_pending > 0 => rs_pin_level = TRUE)
    /\ [][(rs_pc # "idle" /\ rs_pc' = "idle") => RS485_Timer_Silence' = 0]_vars

\* C20 witness: a send of two bytes, all accepted, has returned after all five
\* steps at a time when the clock had advanced, the pin is LOW, nothing is left
\* to transmit and the silence timer reads zero
C20_Witness ==
    /\ rs_pc = "idle"
    /\ rs_log = SendSteps
    /\ rs_nbytes = 2
    /\ rs_accepted = 2
    /\ rs_tx_pending = 0
    /\ rs_pin_level = FALSE
    /\ mstimer_now > 0
    /\ RS485_Timer_Silence = 0

(***************************************************************************)
(* Properties of the transceiver class (SpecHAL)                           *)
(***************************************************************************)

\* The calls of hal_log that write a GPIO pin
GpioCalls == {k \in 1..Len(hal_log) : hal_log[k].call \in {"pinMode", "digitalWrite"}}

\* C21: the configured baud rate of the transceiver class is in the allowed
\* set in every reachable state (begin rejects any other rate and keeps the
\* previous configuration).  begin() stores whatever rate it is given.
C21_BaudAllowed == _baud_rate \in AllowedBauds

\* C24: with no direction pin configured (enable pin -1, auto-direction) the
\* last call of begin, write, setTransmitMode or setReceiveMode has written
\* no GPIO pin, and a write that has returned on a bound port with a buffer
\* has called the port's write once, with the whole buffer.
C24_AutoDirection ==
    (_enable_pin = -1 /\ _auto_direction /\ hal_log # <<>>) =>
        /\ GpioCalls = {}
        /\ (hal_log[1].call = "write" /\ hal_pc = "idle"
              /\ _serial # nullptr /\ hal_buffer # nullptr) =>
              /\ hal_log = <<HalCall("write", hal_log[1].arg),
                             HalCall("serial_write", hal_log[1].arg)>>
              /\ hal_result.op = "write"

\* C24 witness: on a transceiver begun without a direction pin, a write of two
\* bytes has returned 2 after one call of the port's write
C24_Witness ==
    /\ _serial # nullptr
    /\ _enable_pin = -1
    /\ _auto_direction
    /\ hal_pc = "idle"
    /\ hal_log = <<HalCall("write", 2), HalCall("serial_write", 2)>>
    /\ hal_result = [op |-> "write", value |-> 2]

(***************************************************************************)
(* Properties of the baud rate of rs485.cpp (SpecRS485)                    *)
(***************************************************************************)

\* C22: RS485_Set_Baud_Rate(b) returns true and stores b exactly when b is
\* one of the six rates; any other b returns false, leaves the rate unchanged
\* and does not restart the port; RS485_Get_Baud_Rate() is always one of the
\* six and never zero.
C22_SetBaudRate ==
    /\ [](/\ RS485_Get_Baud_Rate \in AllowedBauds
          /\ RS485_Get_Baud_Rate # 0
          /\ rs_call.op = "RS485_Set_Baud_Rate" =>
                /\ rs_call.ret <=> rs_call.arg \in AllowedBauds
                /\ rs_call.ret => RS485_Get_Baud_Rate = rs_call.arg
                /\ rs_call.restarted <=> rs_call.ret)
    /\ [][(rs_call' # rs_call /\ rs_call'.op = "RS485_Set_Baud_Rate"
             /\ ~rs_call'.ret)
            => UNCHANGED <<RS485_Baud, rs_port_baud, rs_rx_available>>]_vars

\* C22 witness: a call with 1200 has returned false on a port that runs at
\* 19200, the rate an earlier call set, with a received byte still buffered
C22_Witness ==
    /\ rs_call = [op |-> "RS485_Set_Baud_Rate", arg |-> 1200, ret |-> FALSE,
                  restarted |-> FALSE, us |-> 0]
    /\ RS485_Get_Baud_Rate = 19200
    /\ rs_port_baud = 19200
    /\ rs_rx_available = 1

\* C23: RS485_Turnaround_Delay waits 40 * 1000000 / baud microseconds (the
\* quotient truncated), the product does not overflow an unsigned long of 32
\* bits and the divisor is not zero, at every reachable rate; at 38400 the
\* delay is within one microsecond of 1042.
C23_TurnaroundDelay ==
    /\ rs_call.op # "undefined"
    /\ rs_call.op = "RS485_Turnaround_Delay" =>
          /\ rs_call.arg \in AllowedBauds
          /\ 40 <= ULONG_MAX_PER_MILLION
          /\ rs_call.us = 40000000 \div rs_call.arg
          /\ rs_call.arg = 38400 =>
                (rs_call.us - 1042 \in -1..1)

\* C23 witness: the delay ran at 38400 baud
C23_Witness ==
    /\ rs_call.op = "RS485_Turnaround_Delay"
    /\ rs_call.arg = 38400
    /\ RS485_Baud = 38400

(***************************************************************************)
(* Properties of BACnetDevice::task (SpecTask)                             *)
(***************************************************************************)

\* The positions of task_log where update() is called on object o
UpdatesOf(o) ==
    {k \in 1..Len(task_log) : task_log[k] = TaskCall("update", o)}

\* The calls task() makes before the loop, in order
TaskPrologue ==
    <<TaskCall("datalink_receive", 0),
      TaskCall("datalink_maintenance_timer", 1),
      TaskCall("tsm_timer_milliseconds", 1)>>

\* C25: when task() returns on an initialized device it has advanced the
\* link-layer and transaction timers by 1 ms before the first update(), has
\* called update() exactly once on every contained object, in index order,
\* and has made at most MAX_BACNET_OBJECTS update calls.  An object that
\* addObject admitted twice (C1) is updated twice.
C25_UpdateOncePerObject ==
    (_initialized /\ task_pc = "return") =>
        /\ SubSeq(task_log, 1, 3) = TaskPrologue
        /\ Len(task_log) = 3 + _object_count
        /\ _object_count <= MAX_BACNET_OBJECTS
        /\ \A i \in 0..(_object_count - 1) :
              task_log[4 + i] = TaskCall("update", _objects[i])
        /\ \A i \in 0..(_object_count - 1) :
              Cardinality(UpdatesOf(_objects[i])) = 1

(***************************************************************************)
(* Properties of BACnetAnalogValue::update (SpecAV)                        *)
(***************************************************************************)

\* C27: update() of an Analog Value bound to a pin calls setValue only if
\* the mapped sample differs from present_value: when they are equal the
\* call leaves present_value, previous_value and the COV timestamp as they
\* were.  readPin() calls setValue with every sample.
C27_UpdateOnlyOnChange ==
    [][\A raw \in RawSamples :
          (/\ update(raw)
           /\ av_pin >= 0
           /\ map(raw, 0, ADC_MAX, av_min_value, av_max_value)
                 = av_present_value)
          => UNCHANGED <<av_present_value, av_previous_value,
                         av_last_cov_time>>]_vars

(***************************************************************************)
(* Properties of BACnetBinaryValue (SpecBinaryValue)                       *)
(***************************************************************************)

\* C26: after update() on an object bound to a pin in an input mode the
\* present value is the sample update() read, and setValue ran (previous
\* value replaced by the old present value, timestamp possibly set) only if
\* the sample differed from the old present value; in OUTPUT mode or with no
\* pin update() changes no field and writes no pin.
C26_UpdateSamplesInput ==
    /\ [](bin_call.op = "update" =>
            /\ bin_call.writes = <<>>
            /\ IF bin_pin >= 0 /\ bin_pin_mode # "OUTPUT"
                 THEN /\ BinaryValue_getValueBool = bin_call.sample
                      /\ IF bin_call.sample # (bin_call.present = BINARY_ACTIVE)
                           THEN /\ bin_previous_value = bin_call.present
                                /\ bin_last_cov_time
                                      \in {bin_call.time, bin_call.now}
                           ELSE /\ bin_present_value = bin_call.present
                                /\ bin_previous_value = bin_call.previous
                                /\ bin_last_cov_time = bin_call.time
                 ELSE /\ bin_present_value = bin_call.present
                      /\ bin_previous_value = bin_call.previous
                      /\ bin_last_cov_time = bin_call.time)
    /\ [][(BinaryValue_update /\ (bin_pin < 0 \/ bin_pin_mode = "OUTPUT"))
            => UNCHANGED <<bin_present_value, bin_previous_value, bin_pin,
                           bin_pin_mode, bin_cov_enabled, bin_last_cov_time,
                           bin_level, bin_hw_mode>>]_vars

\* C26 witness: update() on an input read HIGH while the value was INACTIVE
\* with previous value ACTIVE, and the object is now ACTIVE
C26_Witness ==
    /\ bin_call.op = "update"
    /\ bin_pin >= 0
    /\ bin_pin_mode = "INPUT_PULLUP"
    /\ bin_call.sample
    /\ bin_call.present = BINARY_INACTIVE
    /\ bin_call.previous = BINARY_ACTIVE
    /\ bin_present_value = BINARY_ACTIVE
    /\ bin_previous_value = BINARY_INACTIVE

\* C28: while the object is bound to a pin in OUTPUT mode the pin is HIGH
\* exactly when present_value is ACTIVE, after the constructor and any
\* sequence of setValue, setPin, readPin, writePin and update.
C28_PinFollowsValue ==
    (bin_pin >= 0 /\ bin_pin_mode = "OUTPUT") =>
        /\ bin_hw_mode = "OUTPUT"
        /\ bin_level <=> bin_present_value = BINARY_ACTIVE

\* C28 witness: setValue(BINARY_ACTIVE) on an output drove the pin HIGH
C28_Witness ==
    /\ bin_call.op = "setValue"
    /\ bin_call.arg = BINARY_ACTIVE
    /\ bin_call.present = BINARY_INACTIVE
    /\ bin_pin >= 0
    /\ bin_pin_mode = "OUTPUT"
    /\ bin_level
    /\ bin_call.writes = <<TRUE>>

\* C29: getValue() after setValue(v) returns v for both states; setValue of
\* a bool does what setValue of BINARY_ACTIVE (true) or BINARY_INACTIVE
\* (false) does; getValueBool() is true exactly when getValue() is
\* BINARY_ACTIVE.
C29_SetGetRoundTrip ==
    /\ bin_call.op = "setValue" => BinaryValue_getValue = bin_call.arg
    /\ bin_call.op = "setValue(bool)" =>
          BinaryValue_getValueBool = (bin_call.arg = 1)
    /\ \A b \in BOOLEAN :
          setValueBoolOf(BinObject, b, bin_pin, bin_pin_mode)
             = setValueOf(BinObject,
                          IF b THEN BINARY_ACTIVE ELSE BINARY_INACTIVE,
                          bin_pin, bin_pin_mode)
    /\ BinaryValue_getValueBool <=> BinaryValue_getValue = BINARY_ACTIVE

\* C29 witness: setValue(true) on an INACTIVE object, which now reads ACTIVE
C29_Witness ==
    /\ bin_call.op = "setValue(bool)"
    /\ bin_call.arg = 1
    /\ bin_call.present = BINARY_INACTIVE
    /\ BinaryValue_getValue = BINARY_ACTIVE
    /\ BinaryValue_getValueBool

(***************************************************************************)
(* Properties of change detection (SpecCOV)                                *)
(***************************************************************************)

\* C30: setValue sets the COV timestamp to the clock exactly when COV is
\* enabled and the value changed, and leaves it as it was otherwise: for a
\* Binary Value the value changed when the new present value differs from
\* the previous one, for an Analog Value when the absolute difference of
\* the new, clamped present value and the previous one is at least the
\* increment.  With COV disabled no setValue changes the timestamp.
C30_TimestampOnChange ==
    /\ [](bin_call.op \in {"setValue", "setValue(bool)"} =>
            bin_last_cov_time =
               IF bin_cov_enabled /\ bin_present_value # bin_previous_value
                 THEN bin_call.now
                 ELSE bin_call.time)
    /\ [][\A v \in FloatArgs :
            setValue(v) =>
               /\ av_present_value' = Constrain(v, av_min_value, av_max_value)
               /\ av_previous_value' = av_present_value
               /\ av_last_cov_time' =
                     IF /\ av_cov_enabled
                        /\ abs(av_present_value' - av_previous_value')
                              >= av_cov_increment
                       THEN millis
                       ELSE av_last_cov_time]_vars

\* C30 witness: with COV enabled a setValue that changed a Binary Value
\* recorded the clock, which had advanced since the last timestamp
C30_Witness ==
    /\ bin_call.op = "setValue"
    /\ bin_cov_enabled
    /\ bin_present_value # bin_previous_value
    /\ bin_last_cov_time = bin_call.now
    /\ bin_call.time < bin_call.now

(***************************************************************************)
(* Properties of the absent transceiver (SpecHAL) and of the turnaround    *)
(* delay (SpecRS485)                                                       *)
(***************************************************************************)

\* C34: while no serial port is bound, available(), read() and write() have
\* returned 0 and have written no GPIO pin.  read() returns -1.
C34_AbsentReturnsZero ==
    (_serial = nullptr /\ hal_result.op \in {"available", "read", "write"}) =>
        /\ hal_result.value = 0
        /\ GpioCalls = {}

\* C36: the delay RS485_Turnaround_Delay waited is at least 40 bit times at
\* the configured rate: delay * baud >= 40 * 1000000.  The division
\* truncates, so the delay is up to one microsecond short.
C36_DelayAtLeast40Bits ==
    rs_call.op = "RS485_Turnaround_Delay" =>
        rs_call.us * rs_call.arg >= 40 * 1000000

(***************************************************************************)
(* Properties of previous_value (SpecCOV)                                  *)
(***************************************************************************)

\* C35: right after setValue, of a Binary Value or of an Analog Value, the
\* previous value is the present value the object held right before the
\* call, also when the new value equals the old one.
C35_PreviousIsOldPresent ==
    /\ [](bin_call.op \in {"setValue", "setValue(bool)"} =>
            bin_previous_value = bin_call.present)
    /\ [][\A v \in FloatArgs :
            setValue(v) => av_previous_value' = av_present_value]_vars

\* C35 witness: setValue(BINARY_ACTIVE) on an object that was ACTIVE with
\* previous value INACTIVE: the previous value is now ACTIVE
C35_Witness ==
    /\ bin_call.op = "setValue"
    /\ bin_call.arg = BINARY_ACTIVE
    /\ bin_call.present = BINARY_ACTIVE
    /\ bin_call.previous = BINARY_INACTIVE
    /\ bin_previous_value = BINARY_ACTIVE
    /\ bin_present_value = BINARY_ACTIVE

(***************************************************************************)
(* Properties of begin() and task() (SpecTask)                             *)
(***************************************************************************)

\* C37: until begin() has completed task() advances no timer and updates no
\* object; begin() calls the stack, datalink and device initialization on
\* its first call only, so that they have run exactly once on an initialized
\* device however often begin() was called; begin() and task() leave the table and the count of
\* the registry as they are; and a task() that returns on an initialized
\* device has called update() on every entry of the table, so also on the
\* objects added before begin().
C37_BeginBeforeTask ==
    /\ [](/\ ~_initialized => (task_log = <<>> /\ init_log = <<>>)
          /\ _initialized =>
                init_log = <<"initializeStack", "initializeDatalink",
                             "initializeDevice">>
          /\ (_initialized /\ task_pc = "return") =>
                \A i \in 0..(_object_count - 1) :
                    task_log[4 + i] = TaskCall("update", _objects[i]))
    /\ [][task_vars' # task_vars
            => UNCHANGED <<_objects, _object_count>>]_vars

\* C37 witness: two objects were added, task() was called on the device
\* before begin() and returned with no call made, and the task() after
\* begin() returns with both objects updated
C37_Witness ==
    /\ _initialized
    /\ task_pc = "return"
    /\ _object_count = 2
    /\ dev_call.op = "addObject"
    /\ Len(task_log) = 5
    /\ task_log[4] = TaskCall("update", _objects[0])
    /\ task_log[5] = TaskCall("update", _objects[1])

(***************************************************************************)
(* The read handler and instances outside the table (SpecBVRead)           *)
(***************************************************************************)

\* C38: a read of a supported property with the whole-value array index on
\* an instance that is not in Object_List returns an encoded value and sets
\* no error: present-value reads INACTIVE and object-name reads the
\* placeholder "BV-X"; a write on an instance that is not in Object_List
\* fails with UNKNOWN_OBJECT.
C38_ReadNoInstanceCheck ==
    /\ (/\ RPCalled
        /\ RPSupported
        /\ rp_data.array_index = BACNET_ARRAY_ALL
        /\ ~Binary_Value_Valid_Instance(rp_data.object_instance)) =>
          /\ rp_len > 0
          /\ rp_apdu.tag # "none"
          /\ rp_data.error_class = "unset"
          /\ rp_data.error_code = "unset"
          /\ rp_data.object_property = "PROP_PRESENT_VALUE" =>
                rp_apdu = [tag |-> "ENUMERATED", value |-> BINARY_INACTIVE]
          /\ rp_data.object_property = "PROP_OBJECT_NAME" =>
                rp_apdu = [tag |-> "CHARACTER_STRING", value |-> "BV-X"]
    /\ (WPCalled /\ ~WPInTable) =>
          WPFailed("ERROR_CLASS_OBJECT", "ERROR_CODE_UNKNOWN_OBJECT")

\* C38 witness: instance 50 is not in the table; its object-name was read as
\* "BV-X" and a present-value write to it was refused
C38_Witness ==
    /\ rp_data.object_instance = 50
    /\ rp_data.object_property = "PROP_OBJECT_NAME"
    /\ rp_data.array_index = BACNET_ARRAY_ALL
    /\ rp_apdu.tag = "CHARACTER_STRING"
    /\ rp_len > 0
    /\ wp_data.object_instance = 50
    /\ wp_data.object_property = "PROP_PRESENT_VALUE"
    /\ wp_status = FALSE
    /\ wp_data.error_code = "ERROR_CODE_UNKNOWN_OBJECT"

(***************************************************************************)
(* Properties of the functions that only compute (SpecTable, SpecKilo,     *)
(* SpecTypes)                                                              *)
(***************************************************************************)

\* The instances of Object_List
TableInstances == {Object_List[k].object_id : k \in 1..Objects_Max}

\* C32: Binary_Value_Index_To_Instance and Binary_Value_Instance_To_Index
\* are inverse to each other and follow the order of Object_List: the index
\* of the instance found at index i < Binary_Value_Count() is i, the
\* instance at the index found for an instance of the table is that
\* instance, an instance outside the table has index Binary_Value_Count(),
\* and an index >= Binary_Value_Count() has the instance UINT32_MAX.
C32_IndexInstanceInverse ==
    /\ fn_call.op = "Binary_Value_Index_To_Instance" =>
          IF fn_call.arg < Binary_Value_Count
            THEN /\ fn_call.ret = Object_List[fn_call.arg + 1].object_id
                 /\ Binary_Value_Instance_To_Index(fn_call.ret) = fn_call.arg
            ELSE fn_call.ret = UINT32_MAX
    /\ fn_call.op = "Binary_Value_Instance_To_Index" =>
          IF fn_call.arg \in TableInstances
            THEN /\ fn_call.ret < Binary_Value_Count
                 /\ Binary_Value_Index_To_Instance(fn_call.ret) = fn_call.arg
            ELSE fn_call.ret = Binary_Value_Count

\* C32 witness: instance 99, the last of the table, was found at index 10
C32_Witness ==
    /\ fn_call.op = "Binary_Value_Instance_To_Index"
    /\ fn_call.arg = 99
    /\ fn_call.ret = Binary_Value_Count - 1

\* C33: isObjectTypeAvailable returns true for the type codes
\* BACnetBinaryValue::getObjectType() and BACnetAnalogValue::getObjectType()
\* report, on the boards of every tier.  The switch answers codes 5 and 2
\* with the macros of binary output and analog output, which are 0 on the
\* first tier.
C33_ValueTypesAvailable ==
    (/\ fn_call.op = "isObjectTypeAvailable"
     /\ fn_call.arg \in {OBJECT_BINARY_VALUE, OBJECT_ANALOG_VALUE}) =>
        fn_call.avail

\* The rate of the highest threshold baud_k reaches
RECURSIVE HighestThreshold(_, _)
HighestThreshold(baud_k, thresholds) ==
    LET top == CHOOSE t \in thresholds : \A u \in thresholds : u[1] <= t[1]
    IN  IF baud_k >= top[1] THEN top[2]
        ELSE HighestThreshold(baud_k, thresholds \ {top})

\* C39: RS485_Baud_Rate_From_Kilo returns an allowed rate for every baud_k
\* in 0..255, and RS485_Set_Baud_Rate accepts it; for baud_k in 9..254 the
\* rate is that of the highest of the thresholds 9, 19, 38, 57, 76, 115 that
\* baud_k reaches, and for baud_k < 9 and baud_k = 255 it is 38400.
C39_BaudRateFromKilo ==
    /\ fn_call.op = "RS485_Baud_Rate_From_Kilo" =>
          /\ fn_call.ret \in AllowedBauds
          /\ fn_call.arg \in 9..254 =>
                fn_call.ret =
                   HighestThreshold(fn_call.arg,
                                    {<<9, 9600>>, <<19, 19200>>,
                                     <<38, 38400>>, <<57, 57600>>,
                                     <<76, 76800>>, <<115, 115200>>})
          /\ (fn_call.arg < 9 \/ fn_call.arg = 255) => fn_call.ret = 38400
    /\ rs_call.op = "RS485_Set_Baud_Rate" =>
          /\ rs_call.ret
          /\ RS485_Baud = rs_call.arg

\* C39 witness: 76 kilobaud gave 76800, which RS485_Set_Baud_Rate accepted
C39_Witness ==
    /\ fn_call.op = "RS485_Baud_Rate_From_Kilo"
    /\ fn_call.arg = 76
    /\ fn_call.ret = 76800
    /\ rs_call.op = "RS485_Set_Baud_Rate"
    /\ rs_call.ret
    /\ RS485_Baud = 76800


(***************************************************************************)
(* The names of the device                                                 *)
(***************************************************************************)

\* The array the last call of a name setter writes to: its offset and size
NameField ==
    CASE name_call.op = "setDeviceName" ->
             [dest |-> offsetof_device_name, size |-> sizeof_device_name]
      [] name_call.op = "setLocation" ->
             [dest |-> offsetof_location, size |-> sizeof_location]
      [] OTHER ->
             [dest |-> offsetof_description, size |-> sizeof_description]

====
